---- MODULE Spec2Model ----
(***************************************************************************)
(* Philote-JuliaServer: the single-threaded executor (JuliaExecutor) that  *)
(* serialises every call into the embedded Julia runtime, the threads that *)
(* submit closures to it, and the discipline adapters that use it.         *)
(***************************************************************************)
EXTENDS Integers, Sequences, FiniteSets, TLC

(* ---------------------------- bounds ---------------------------------- *)
\* number of request threads that call Submit / adapter methods
NumClients == 2
\* number of calls the request threads issue in total
MaxSubmits == 2
\* number of Start() and Stop() calls the main thread makes in total
MaxMainOps == 3
\* number of methods the executor thread runs one after the other
MaxMethods == 2
\* number of threads that construct JuliaThreadGuard objects
NumThreads == 3
\* number of JuliaThreadGuard objects alive at once on a thread
MaxGuards == 3
\* number of GCProtect objects alive at once on a thread
MaxProtects == 2
\* number of discipline adapters the process constructs
NumAdapters == 2
\* length of the longest key of a Julia dictionary handed to a converter
MaxKeyLen == 3
\* number of entries of such a dictionary
MaxEntries == 2
\* largest extent of an array dimension
MaxDim == 2
\* number of Setup() calls an adapter receives
MaxSetups == 2
\* number of Compute / ComputePartials / SetOptions / SetupPartials calls an
\* adapter receives
MaxCalls == 2

Clients == 1 .. NumClients
Threads == 1 .. NumThreads
Workers == 1 .. MaxMainOps
Adapters == 1 .. NumAdapters

(* ---------------------------- threads --------------------------------- *)
Thr(k, i) == [k |-> k, i |-> i]
NoThread == Thr("none", 0)
MainThread == Thr("main", 0)
ClientThread(c) == Thr("client", c)
WorkerThread(w) == Thr("worker", w)

(* ---------------------------- closures -------------------------------- *)
\* methods of JuliaExplicitDiscipline: each one is a single Submit(closure)
ExplicitMethods == {"Setup", "SetupPartials", "Compute", "ComputePartials", "SetOptions"}
\* methods of JuliaImplicitDiscipline: each one calls the runtime directly
ImplicitMethods == {"Setup", "SetupPartials", "ComputeResiduals", "SolveResiduals",
                    "ComputeResidualGradients", "SetOptions"}
\* the implicit methods that take compute_mutex_
ImplicitLocked == {"ComputeResiduals", "SolveResiduals", "ComputeResidualGradients"}

\* paraboloid.jl: compute returns f = x^2 + y^2
ParaboloidCompute(x, y) == x * x + y * y
\* paraboloid.jl: compute_partials returns f~x = 2x, f~y = 2y
ParaboloidPartials(x, y) == <<2 * x, 2 * y>>

\* the value captured by the closure of call n of thread t (expected = t * 1000 + i)
TaskExpected(t, i) == t * 1000 + i

NoClosure == [method |-> "none", x |-> 0, y |-> 0, throws |-> FALSE]
Closure(m, x, y, th) == [method |-> m, x |-> x, y |-> y, throws |-> th]

Empty == [kind |-> "empty", val |-> <<>>]
Value(v) == [kind |-> "value", val |-> <<v>>]
Exception(f) == [kind |-> "exception", val |-> <<f.method, f.x, f.y>>]

\* what the body of a closure does when it is run: the value it returns, or
\* the exception it throws
Body(f) ==
    IF f.throws THEN Exception(f)
    ELSE IF f.method = "task" THEN Value(TaskExpected(f.x, f.y))
    ELSE IF f.method = "Compute" THEN Value(ParaboloidCompute(f.x, f.y))
    ELSE IF f.method = "ComputePartials" THEN Value(ParaboloidPartials(f.x, f.y))
    ELSE Value(0)

NoTask == [owner |-> 0, seq |-> 0, f |-> NoClosure]
Task(c, n, f) == [owner |-> c, seq |-> n, f |-> f]
TaskId(t) == <<t.owner, t.seq>>

(* ---------------------------- exceptions ------------------------------ *)
\* the exception a script raises with error(...), and the one the runtime
\* raises when showerror / sprint fail
ScriptError == "ErrorException"
FormatError == "MethodError"
NoException == "none"

\* jl_call0..3, jl_call, jl_eval_string: the call runs under the runtime's
\* try/catch; if the callee raises, the exception becomes the thread's
\* exception state, and if it returns, the exception state is cleared
JlCall(raises, ty) == IF raises THEN ty ELSE NoException

\* the strings the native errors carry
NoMsg == [form |-> "none", ex |-> NoException]
Unknown == [form |-> "Unknown Julia exception", ex |-> NoException]
TypeName(ex) == [form |-> "jl_typeof_str", ex |-> ex]
Detailed(ex) == [form |-> "sprint(showerror)", ex |-> ex]
JuliaException(ex) == [form |-> "Julia exception: jl_typeof_str", ex |-> ex]
JuliaError(ex) == [form |-> "Julia error: jl_typeof_str", ex |-> ex]
LoadError(ex) == [form |-> "Julia error loading file: jl_typeof_str", ex |-> ex]

\* the behaviour of the runtime's error formatting: whether Base.sprint and
\* Base.showerror are found, whether showerror(stderr, ex) raises, whether
\* sprint(showerror, ex) raises, and whether it returns a string
Envs == [found : BOOLEAN, showRaises : BOOLEAN, sprintRaises : BOOLEAN,
         isString : BOOLEAN]
NoEnv == [found |-> TRUE, showRaises |-> FALSE, sprintRaises |-> FALSE,
          isString |-> TRUE]

\* the earlier GetJuliaExceptionString: no jl_exception_clear(), the type name
\* behind a "Julia exception: " prefix
GetJuliaExceptionStringEarlier(e, v) ==
    IF e = NoException THEN [msg |-> Unknown, exc |-> e]
    ELSE IF v.found
    THEN LET e2 == JlCall(v.sprintRaises, FormatError)
         IN  [msg |-> IF e2 = NoException /\ v.isString THEN Detailed(e)
                      ELSE JuliaException(e),
              exc |-> e2]
    ELSE [msg |-> JuliaException(e), exc |-> e]

\* GetJuliaExceptionString(): the message for the exception state e, and the
\* exception state it leaves behind
GetJuliaExceptionString(e, v) ==
    IF e = NoException THEN [msg |-> Unknown, exc |-> e]
    ELSE IF v.found
    THEN \* jl_exception_clear(); jl_call2(sprint_fn, showerror_fn, ex)
         LET e2 == JlCall(v.sprintRaises, FormatError)
         IN  IF e2 # NoException
             THEN \* jl_exception_clear(); return msg;
                  [msg |-> TypeName(e), exc |-> NoException]
             ELSE IF v.isString
             THEN [msg |-> Detailed(e), exc |-> e2]
             ELSE [msg |-> TypeName(e), exc |-> e2]
    ELSE [msg |-> TypeName(e), exc |-> e]

\* CheckJuliaException() without its jl_exception_clear()
CheckNoClear(e, v) ==
    IF e # NoException
    THEN LET g == GetJuliaExceptionString(e, v)
         IN  [exc |-> g.exc, threw |-> TRUE, msg |-> g.msg]
    ELSE [exc |-> e, threw |-> FALSE, msg |-> NoMsg]

\* CheckJuliaException(): whether it throws, with which message, and the
\* exception state it leaves behind
CheckJuliaException(e, v) ==
    IF e # NoException
    THEN LET g == GetJuliaExceptionString(e, v)
         IN  [exc |-> NoException, threw |-> TRUE, msg |-> g.msg]
    ELSE [exc |-> e, threw |-> FALSE, msg |-> NoMsg]

\* JuliaRuntime::EvalString after jl_eval_string: if (jl_exception_occurred())
\* throw std::runtime_error("Julia error: " + jl_typeof_str(ex))
EvalStringCheck(e, v) ==
    IF e # NoException
    THEN [exc |-> e, threw |-> TRUE, msg |-> JuliaError(e)]
    ELSE [exc |-> e, threw |-> FALSE, msg |-> NoMsg]

\* LoadJuliaFile without the test of jl_exception_occurred()
LoadJuliaFileNoCheck(e, v) == [exc |-> e, threw |-> FALSE, msg |-> NoMsg]

\* JuliaRuntime::LoadJuliaFile after jl_eval_string: the exception is shown
\* on stderr, formatted with sprint(showerror, ex) after a
\* jl_exception_clear(), and thrown as std::runtime_error
LoadJuliaFileCheck(e, v) ==
    IF e # NoException
    THEN LET \* jl_call2(showerror_fn, jl_stderr_obj(), ex)
             e1 == IF v.found THEN JlCall(v.showRaises, FormatError) ELSE e
             \* jl_exception_clear(); jl_call2(sprint_fn, showerror_fn, ex)
             e2 == IF v.found THEN JlCall(v.sprintRaises, FormatError) ELSE e1
             detailed == v.found /\ e2 = NoException /\ v.isString
         IN  [exc |-> e2, threw |-> TRUE,
              msg |-> IF detailed THEN Detailed(e) ELSE LoadError(e)]
    ELSE [exc |-> e, threw |-> FALSE, msg |-> NoMsg]

\* a statement of a method that concerns the runtime: op says what it is
\* (jl_call: a call that can raise; api: a runtime call that does not touch
\* the exception state; check: CheckJuliaException(); eval_check and
\* load_check: the tests after jl_eval_string), name what is called
Ev(op, name) == [op |-> op, name |-> name]

\* JuliaRuntime::EvalString
EvalStringProgram == <<Ev("jl_call", "jl_eval_string"), Ev("eval_check", "")>>

\* JuliaRuntime::LoadJuliaFile
LoadJuliaFileProgram == <<Ev("jl_call", "jl_eval_string"), Ev("load_check", "")>>

\* VariablesToJuliaDict, for an empty Variables map
VariablesToJuliaDictProgram ==
    <<Ev("api", "jl_get_global"), Ev("api", "jl_apply_type"), Ev("check", ""),
      Ev("jl_call", "Dict"), Ev("check", ""), Ev("api", "jl_get_function")>>

\* JuliaExplicitDiscipline::LoadJuliaDiscipline (the closure it submits)
LoadJuliaDisciplineProgram ==
    LoadJuliaFileProgram
    \o <<Ev("api", "jl_get_global"), Ev("jl_call", "constructor"), Ev("check", "")>>

\* JuliaExplicitDiscipline::Setup (the closure it submits), with
\* ExtractIOMetadata for a discipline with no inputs and no outputs
ExplicitSetupProgram ==
    <<Ev("api", "jl_get_function"), Ev("jl_call", "setup!"),
      Ev("api", "jl_get_function"), Ev("jl_call", "getproperty"), Ev("check", ""),
      Ev("api", "jl_get_function"), Ev("jl_call", "keys"), Ev("check", ""),
      Ev("jl_call", "collect"), Ev("check", ""),
      Ev("jl_call", "getproperty"), Ev("check", ""),
      Ev("api", "jl_get_function"), Ev("jl_call", "keys"), Ev("check", ""),
      Ev("jl_call", "collect"), Ev("check", "")>>

\* JuliaExplicitDiscipline::SetupPartials (the closure it submits), with
\* ExtractPartialsMetadata for a discipline with no partials
ExplicitSetupPartialsProgram ==
    <<Ev("api", "jl_get_function"), Ev("jl_call", "setup_partials!"), Ev("check", ""),
      Ev("api", "jl_get_function"), Ev("jl_call", "getproperty"), Ev("check", ""),
      Ev("api", "jl_get_function"), Ev("jl_call", "keys"), Ev("check", ""),
      Ev("jl_call", "collect"), Ev("check", "")>>

\* JuliaImplicitDiscipline::Setup
ImplicitSetupProgram ==
    <<Ev("api", "jl_get_function"), Ev("jl_call", "setup!"), Ev("check", "")>>

Methods == {"EvalString", "LoadJuliaFile", "VariablesToJuliaDict",
            "LoadJuliaDiscipline", "ExplicitSetup", "ExplicitSetupPartials",
            "ImplicitSetup"}

Program(m) ==
    IF m = "EvalString" THEN EvalStringProgram
    ELSE IF m = "LoadJuliaFile" THEN LoadJuliaFileProgram
    ELSE IF m = "VariablesToJuliaDict" THEN VariablesToJuliaDictProgram
    ELSE IF m = "LoadJuliaDiscipline" THEN LoadJuliaDisciplineProgram
    ELSE IF m = "ExplicitSetup" THEN ExplicitSetupProgram
    ELSE IF m = "ExplicitSetupPartials" THEN ExplicitSetupPartialsProgram
    ELSE IF m = "ImplicitSetup" THEN ImplicitSetupProgram
    ELSE <<>>

MethodRunning == [kind |-> "running", msg |-> NoMsg]
MethodReturned == [kind |-> "returned", msg |-> NoMsg]
MethodThrew(msg) == [kind |-> "threw", msg |-> msg]

(* ---------------------------- GC roots -------------------------------- *)
\* the value of the GC-root stack pointer before the first guard
GCBase == 0
\* the stack addresses at which a constructor's frame can lie
FrameAddrs == 1 .. MaxProtects
\* the number of objects a GCProtect is constructed over: none, or one (every
\* JL_GC_PUSHn of the constructor's switch pushes one frame the same way)
GuardCounts == {0, 1}

(* ---------------------------- native and Julia values ------------------ *)
\* the characters of names and keys; "~" is the delimiter of a flat partials
\* key. No NUL among them: c_str() and jl_string_ptr carry such strings whole
Chars == {"x", "~"}
Strings(n) == UNION {[1 .. k -> Chars] : k \in 0 .. n}
\* names of the variables and option fields handed to the converters
Names == {<<"x">>, <<"x", "x">>}

\* shapes of philote::Variable: 1-D, and 2-D (rows, cols)
Shapes == {<<n>> : n \in 1 .. MaxDim} \cup {<<r, c>> : r \in 1 .. MaxDim, c \in 1 .. MaxDim}
RECURSIVE SizeOf(_)
SizeOf(shape) == IF shape = <<>> THEN 1 ELSE shape[1] * SizeOf(Tail(shape))
\* a philote::Variable whose flat (row-major) data are 1, 2, ..., Size()
NativeVariables ==
    {[type |-> t, shape |-> sh, data |-> [k \in 1 .. SizeOf(sh) |-> k]] :
        t \in {"kInput", "kOutput"}, sh \in Shapes}
\* philote::Variables: std::map<std::string, Variable>
VariableMaps == UNION {[D -> NativeVariables] : D \in SUBSET Names}

\* Julia values: a key is a String or some other boxed value, a value is an
\* Array{Float64} (dims, column-major data) or something else
StringKey(str) == [isString |-> TRUE, chars |-> str]
NonStringKey == [isString |-> FALSE, chars |-> <<>>]
JlArray(dims, data) == [isArray |-> TRUE, dims |-> dims, data |-> data]
NonArray == [isArray |-> FALSE, dims |-> <<>>, data |-> <<>>]
\* a Dict, with its entries in the order collect(keys(dict)) yields them
JlDict(entries) == [kind |-> "dict", entries |-> entries]
JlNone == [kind |-> "none"]
\* the sequences of at most MaxEntries entries, no key twice, over keys K and
\* values V
DictsOver(K, V) ==
    {JlDict(es) : es \in
        {q \in UNION {[1 .. n -> [key : K, value : V]] : n \in 0 .. MaxEntries} :
            \A i \in 1 .. Len(q) : \A j \in 1 .. Len(q) : q[i].key = q[j].key => i = j}}
\* arguments of JuliaDictToVariables: nullptr, a value keys() has no method
\* for, a value whose collect(keys(v)) is an array of unboxed elements (the
\* number 42, a Vector{Float64}, a Dict{Int64, V}), or a Dict of boxed keys
JlArguments ==
    {[kind |-> k] : k \in {"null", "nokeys", "bits"}}
        \cup DictsOver({StringKey(n) : n \in Names} \cup {NonStringKey},
                      {JlArray(<<1>>, <<5>>), NonArray})
\* what compute_partials can return: a Dict with string keys
PartialsDicts ==
    DictsOver({StringKey(str) : str \in Strings(MaxKeyLen)}, {JlArray(<<2>>, <<6, 8>>)})

\* Array{Float64} values of one, two and three dimensions, the stored
\* (column-major) data being 1, 2, ..., length
Arrays ==
    {JlArray(sh, [k \in 1 .. SizeOf(sh) |-> k]) :
        sh \in Shapes \cup {<<r, c, d>> : r \in 1 .. MaxDim, c \in 1 .. MaxDim,
                                          d \in 1 .. MaxDim}}
\* what compute / compute_partials return for one output: a Dict with the
\* single key str
ArrayDicts(str) == {JlDict(<<[key |-> StringKey(str), value |-> a]>>) : a \in Arrays}

\* google::protobuf::Value: kind_case() and the accessors of its oneof
PbValue(k, n, b, str) ==
    [kind |-> k, number_value |-> n, bool_value |-> b, string_value |-> str]
PbValues ==
    {PbValue("number", n, FALSE, <<>>) : n \in {0, 1}}
        \cup {PbValue("bool", 0, b, <<>>) : b \in BOOLEAN}
        \cup {PbValue("string", 0, FALSE, str) : str \in {<<>>} \cup Names}
        \cup {PbValue(k, 0, FALSE, <<>>) : k \in {"null", "list", "struct"}}
\* google::protobuf::Struct: fields()
PbStructs == UNION {[D -> PbValues] : D \in SUBSET Names}

\* how a converter call ends
ConvPending == [kind |-> "pending"]
ConvThrew == [kind |-> "threw"]
ConvAborted == [kind |-> "aborted"]
ConvReturned(val) == [kind |-> "value", val |-> val]

VARIABLES
    stop_,          \* JuliaExecutor::stop_
    task_queue_,    \* JuliaExecutor::task_queue_
    queue_mutex_,   \* thread holding JuliaExecutor::queue_mutex_
    joinable,       \* executor_thread_.joinable()
    nstarted,       \* worker threads created so far; executor_thread_ is the last
    wpc,            \* position of each worker thread in ExecutorLoop
    wtask,          \* the local `task` of each worker thread
    cpc,            \* position of each request thread
    ccall,          \* the closure of the request thread's current (or last) call
    promise,        \* the std::promise on the stack of each request thread's Submit
    cres,           \* what the last call of each request thread returned or threw
    ncalls,         \* calls issued so far by each request thread
    mpc,            \* position of the main thread (Start / Stop)
    lastOp,         \* last executor operation the main thread completed
    nmain,          \* Start() and Stop() calls begun so far
    terminated,     \* std::terminate was called
    compute_mutex_, \* thread holding JuliaImplicitDiscipline::compute_mutex_
    adopted,        \* threads registered with the runtime (jl_adopt_thread)
    pushLog,        \* task ids in the order they were pushed
    startLog,       \* task ids in the order their closures started to run
    instance,       \* the function-local static of JuliaRuntime::GetInstance
    init_flag_,     \* JuliaRuntime::init_flag_ (std::once_flag)
    njl_init,       \* number of times jl_init() has been called
    initialized_,   \* JuliaRuntime::initialized_
    rpc,            \* position of each thread inside a JuliaRuntime / converter call
    racq,           \* threads whose JuliaRuntime::GetInstance() has returned
    entry,          \* the program that is starting up: main or a test fixture
    kind,           \* config.discipline.kind
    jl_exception,   \* what jl_exception_occurred() returns on the executor thread
    method,         \* the method the executor thread is running, or the last one
    mpos,           \* the next statement of that method
    outcome,        \* whether the method is running, has returned or has thrown
    unchecked,      \* a call that can raise was made and no check has followed yet
    raisedIn,       \* the calls of this method in which the script raised
    env,            \* how the runtime's error formatting behaves during this method
    nmethods,       \* methods run so far
    adopted_,       \* JuliaThreadGuard::adopted_ (thread_local) of each thread
    nadopt,         \* jl_adopt_thread() calls made by the guards of each thread
    nguards,        \* JuliaThreadGuard objects alive on each thread
    protects,       \* the GCProtect objects alive on the thread, innermost last
    jl_pgcstack,    \* the thread's GC-root stack pointer
    gcframes,       \* the prev field stored at each stack address that held a frame
    adapter,        \* each adapter: not constructed, its kind while alive, destroyed
    discipline_obj_,\* discipline_obj_ of each adapter (0 is nullptr)
    heap,           \* the script objects the garbage collector has not reclaimed
    main_global,    \* Main._philote_discipline_obj (0 while undefined)
    gcroots,        \* the objects a GCProtect of the running method holds
    running,        \* the adapter whose method is executing script code (0: none)
    convCall,       \* the converter under test and its native argument
    convJl,         \* the Julia value a converter is given or has produced
    convOut,        \* what the converter delivered to its caller
    script,         \* the inputs and outputs the script's setup! declares
    life,           \* the explicit adapter: not constructed, or constructed
    nsetup,         \* Setup() calls that have completed
    var_meta,       \* var_meta(): the variables registered with AddInput / AddOutput
    partials_meta,  \* partial_meta(): the pairs registered with DeclarePartials
    file,           \* what the script at config_.julia_file defines
    obj,            \* the JuliaExplicitDiscipline object: none, constructed, or failed
    mcall,          \* the last call made on the adapter and how it ended
    caller_outputs, \* the caller's philote::Variables& outputs
    caller_partials,\* the caller's philote::Partials& partials
    nadapter,       \* calls made on the adapter so far
    cstack,         \* the adapter functions a call is inside, outermost first
    wblocked,       \* the executor thread waits in future.get() of its own Submit
    statics,        \* the function-local statics alive, in order of construction
    xpc,            \* how far the process has come from startup to exit
    nhook           \* jl_atexit_hook() calls made so far

executorVars == <<stop_, task_queue_, queue_mutex_, joinable, nstarted, wpc, wtask, cpc,
                  ccall, promise, cres, ncalls, mpc, lastOp, nmain, terminated,
                  compute_mutex_, adopted, pushLog, startLog>>
runtimeVars == <<instance, init_flag_, njl_init, initialized_, rpc, racq>>
startupVars == <<entry, kind>>
exceptionVars == <<jl_exception, method, mpos, outcome, unchecked, raisedIn, env,
                   nmethods>>
guardVars == <<adopted_, nadopt, nguards>>
gcVars == <<protects, jl_pgcstack, gcframes>>
threadVars == <<exceptionVars, guardVars, gcVars>>
rootVars == <<adapter, discipline_obj_, heap, main_global, gcroots, running>>
convVars == <<convCall, convJl, convOut>>
metaVars == <<script, life, nsetup, var_meta, partials_meta>>
callVars == <<file, obj, mcall, caller_outputs, caller_partials, nadapter>>
processVars == <<cstack, wblocked, statics, xpc, nhook>>
dataVars == <<rootVars, convVars, metaVars, callVars, processVars>>
coreVars == <<runtimeVars, startupVars, threadVars>>
libVars == <<coreVars, dataVars>>

vars == <<executorVars, libVars>>

execVars == <<stop_, task_queue_, joinable, nstarted, wpc, wtask, terminated>>
mainVars == <<mpc, lastOp, nmain>>
clientVars == <<cpc, ccall, promise, cres, ncalls>>
logVars == <<pushLog, startLog>>

(* ---------------------------- initial states -------------------------- *)
\* the runtime singleton before the first JuliaRuntime::GetInstance()
RuntimeInit ==
    /\ instance = "none"
    /\ init_flag_ = FALSE
    /\ njl_init = 0
    /\ initialized_ = FALSE
    /\ rpc = [t \in Clients |-> "idle"]
    /\ racq = {}

\* no startup program is being followed
StartupNone ==
    /\ entry = "none"
    /\ kind = "none"

\* the executor thread before it has called into the runtime
ExceptionInit ==
    /\ jl_exception = NoException
    /\ method = "none"
    /\ mpos = 0
    /\ outcome = MethodReturned
    /\ unchecked = FALSE
    /\ raisedIn = {}
    /\ env = NoEnv
    /\ nmethods = 0

\* thread_local bool JuliaThreadGuard::adopted_ = false, on every thread
GuardInit ==
    /\ adopted_ = [t \in Threads |-> FALSE]
    /\ nadopt = [t \in Threads |-> 0]
    /\ nguards = [t \in Threads |-> 0]

\* a thread with no GCProtect alive
GCInit ==
    /\ protects = <<>>
    /\ jl_pgcstack = GCBase
    /\ gcframes = [a \in FrameAddrs |-> GCBase]

ThreadInit == ExceptionInit /\ GuardInit /\ GCInit

\* no adapter constructed yet: module_(nullptr), discipline_obj_(nullptr)
RootInit ==
    /\ adapter = [a \in Adapters |-> "none"]
    /\ discipline_obj_ = [a \in Adapters |-> 0]
    /\ heap = {}
    /\ main_global = 0
    /\ gcroots = {}
    /\ running = 0

\* no converter has been called
ConvInit ==
    /\ convCall = [fn |-> "none"]
    /\ convJl = JlNone
    /\ convOut = ConvPending

\* no explicit adapter constructed; the script declares nothing
MetaInit ==
    /\ script = [inputs |-> <<>>, outputs |-> <<>>]
    /\ life = "none"
    /\ nsetup = 0
    /\ var_meta = <<>>
    /\ partials_meta = <<>>

\* no script, no adapter object, no call made
CallInit ==
    /\ file = [loads |-> FALSE, type |-> FALSE, functions |-> {}, properties |-> {}]
    /\ obj = "none"
    /\ mcall = [fn |-> "none"]
    /\ caller_outputs = <<>>
    /\ caller_partials = <<>>
    /\ nadapter = 0

\* no call in progress, no static constructed, the process about to start
ProcessInit ==
    /\ cstack = <<>>
    /\ wblocked = FALSE
    /\ statics = <<>>
    /\ xpc = "startup"
    /\ nhook = 0

DataInit == RootInit /\ ConvInit /\ MetaInit /\ CallInit /\ ProcessInit

LibInit == RuntimeInit /\ StartupNone /\ ThreadInit /\ DataInit

\* a JuliaExecutor as constructed: no thread, empty queue, stop_ = false
ExecutorInit ==
    /\ stop_ = FALSE
    /\ task_queue_ = <<>>
    /\ queue_mutex_ = NoThread
    /\ joinable = FALSE
    /\ nstarted = 0
    /\ wpc = [w \in Workers |-> "none"]
    /\ wtask = [w \in Workers |-> NoTask]
    /\ cpc = [c \in Clients |-> "idle"]
    /\ ccall = [c \in Clients |-> NoClosure]
    /\ promise = [c \in Clients |-> Empty]
    /\ cres = [c \in Clients |-> Empty]
    /\ ncalls = [c \in Clients |-> 0]
    /\ mpc = "idle"
    /\ lastOp = "none"
    /\ nmain = 0
    /\ terminated = FALSE
    /\ compute_mutex_ = NoThread
    /\ adopted = {}
    /\ pushLog = <<>>
    /\ startLog = <<>>

Init == ExecutorInit /\ LibInit

(* ---------------------------- condition variable ---------------------- *)
\* a notification that wakes nobody
NotifyNone(pcs) == {pcs}

\* cv_.notify_one(): one thread blocked in cv_.wait, if there is one, is woken
\* and must re-acquire the mutex; the result is the set of possible outcomes
NotifyOne(pcs) ==
    IF \E w \in Workers : pcs[w] = "wait"
    THEN {[pcs EXCEPT ![w] = "lock"] : w \in {v \in Workers : pcs[v] = "wait"}}
    ELSE {pcs}

\* the predicate of cv_.wait in ExecutorLoop
WaitPredicate == stop_ \/ task_queue_ # <<>>

(* ---------------------------- JuliaExecutor::Start / Stop ------------- *)
\* Start() that creates one more worker thread whether or not one is running
StartSecondWorker ==
    /\ ~terminated
    /\ mpc = "idle"
    /\ nmain < MaxMainOps
    /\ nmain' = nmain + 1
    /\ joinable' = TRUE
    /\ nstarted' = nstarted + 1
    /\ wpc' = [wpc EXCEPT ![nstarted + 1] = "adopt"]
    /\ lastOp' = "start"
    /\ UNCHANGED <<stop_, task_queue_, queue_mutex_, wtask, mpc, terminated,
                   clientVars, compute_mutex_, adopted, logVars>>
    /\ UNCHANGED libVars

\* executor_thread_ = std::thread(...): move-assigning onto a joinable
\* std::thread calls std::terminate
Start ==
    /\ ~terminated
    /\ mpc = "idle"
    /\ nmain < MaxMainOps
    /\ nmain' = nmain + 1
    /\ IF joinable
       THEN /\ terminated' = TRUE
            /\ UNCHANGED <<joinable, nstarted, wpc, lastOp>>
       ELSE /\ joinable' = TRUE
            /\ nstarted' = nstarted + 1
            /\ wpc' = [wpc EXCEPT ![nstarted + 1] = "adopt"]
            /\ lastOp' = "start"
            /\ UNCHANGED terminated
    /\ UNCHANGED <<stop_, task_queue_, queue_mutex_, wtask, mpc,
                   clientVars, compute_mutex_, adopted, logVars>>
    /\ UNCHANGED libVars

\* Stop(): lock_guard on queue_mutex_
StopLock ==
    /\ ~terminated
    /\ mpc = "idle"
    /\ nmain < MaxMainOps
    /\ queue_mutex_ = NoThread
    /\ queue_mutex_' = MainThread
    /\ mpc' = "stop_set"
    /\ nmain' = nmain + 1
    /\ UNCHANGED <<execVars, lastOp, clientVars, compute_mutex_, adopted, logVars>>
    /\ UNCHANGED libVars

\* Stop(): stop_ = true, end of the lock_guard scope
StopSet ==
    /\ ~terminated
    /\ mpc = "stop_set"
    /\ stop_' = TRUE
    /\ queue_mutex_' = NoThread
    /\ mpc' = "stop_notify"
    /\ UNCHANGED <<task_queue_, joinable, nstarted, wpc, wtask, terminated, lastOp,
                   nmain, clientVars, compute_mutex_, adopted, logVars>>
    /\ UNCHANGED libVars

\* Stop(): cv_.notify_one()
StopNotify ==
    /\ ~terminated
    /\ mpc = "stop_notify"
    /\ wpc' \in NotifyOne(wpc)
    /\ mpc' = "stop_join"
    /\ UNCHANGED <<stop_, task_queue_, queue_mutex_, joinable, nstarted, wtask,
                   terminated, lastOp, nmain, clientVars, compute_mutex_, adopted,
                   logVars>>
    /\ UNCHANGED libVars

\* Stop() that joins without testing joinable(): join() on a thread that is
\* not joinable throws std::system_error out of the destructor
StopJoinUnchecked ==
    /\ ~terminated
    /\ mpc = "stop_join"
    /\ IF joinable
       THEN /\ wpc[nstarted] = "exited"
            /\ joinable' = FALSE
            /\ UNCHANGED terminated
       ELSE /\ terminated' = TRUE
            /\ UNCHANGED joinable
    /\ mpc' = "idle"
    /\ lastOp' = "stop"
    /\ UNCHANGED <<stop_, task_queue_, queue_mutex_, nstarted, wpc, wtask,
                   nmain, clientVars, compute_mutex_, adopted, logVars>>
    /\ UNCHANGED libVars

\* Stop(): if (executor_thread_.joinable()) executor_thread_.join();
StopJoin ==
    /\ ~terminated
    /\ mpc = "stop_join"
    /\ IF joinable
       THEN /\ wpc[nstarted] = "exited"
            /\ joinable' = FALSE
       ELSE UNCHANGED joinable
    /\ mpc' = "idle"
    /\ lastOp' = "stop"
    /\ UNCHANGED <<stop_, task_queue_, queue_mutex_, nstarted, wpc, wtask, terminated,
                   nmain, clientVars, compute_mutex_, adopted, logVars>>
    /\ UNCHANGED libVars

(* ---------------------------- JuliaExecutor::Submit ------------------- *)
RECURSIVE CallsUpTo(_, _)
CallsUpTo(n, c) == IF c = 0 THEN 0 ELSE n[c] + CallsUpTo(n, c - 1)
\* calls issued so far by all request threads
TotalCalls == CallsUpTo(ncalls, NumClients)

\* the closures a request thread passes to Submit on its call number n:
\* a plain closure returning its captured value or throwing, or the closure
\* of JuliaExplicitDiscipline::Compute with inputs x = c, y = n
SubmitClosures(c, n) ==
    {Closure("task", c, n, th) : th \in BOOLEAN} \cup {Closure("Compute", c, n, FALSE)}

\* Submit: std::promise<ReturnType> promise; auto future = promise.get_future();
SubmitBegin(c, f) ==
    /\ ~terminated
    /\ cpc[c] = "idle"
    /\ TotalCalls < MaxSubmits
    /\ ncalls' = [ncalls EXCEPT ![c] = @ + 1]
    /\ ccall' = [ccall EXCEPT ![c] = f]
    /\ promise' = [promise EXCEPT ![c] = Empty]
    /\ cres' = [cres EXCEPT ![c] = Empty]
    /\ cpc' = [cpc EXCEPT ![c] = "lock"]
    /\ UNCHANGED <<execVars, queue_mutex_, mainVars, compute_mutex_, adopted, logVars>>
    /\ UNCHANGED libVars

\* Submit: std::lock_guard<std::mutex> lock(queue_mutex_);
SubmitLock(c) ==
    /\ ~terminated
    /\ cpc[c] = "lock"
    /\ queue_mutex_ = NoThread
    /\ queue_mutex_' = ClientThread(c)
    /\ cpc' = [cpc EXCEPT ![c] = "push"]
    /\ UNCHANGED <<execVars, ccall, promise, cres, ncalls, mainVars, compute_mutex_,
                   adopted, logVars>>
    /\ UNCHANGED libVars

\* the queue after task_queue_.push(t)
Push(q, t) == Append(q, t)

\* Submit: task_queue_.push([&promise, task] {...}); end of the lock_guard scope
SubmitPush(c) ==
    /\ ~terminated
    /\ cpc[c] = "push"
    /\ queue_mutex_ = ClientThread(c)
    /\ task_queue_' = Push(task_queue_, Task(c, ncalls[c], ccall[c]))
    /\ pushLog' = Append(pushLog, <<c, ncalls[c]>>)
    /\ queue_mutex_' = NoThread
    /\ cpc' = [cpc EXCEPT ![c] = "notify"]
    /\ UNCHANGED <<stop_, joinable, nstarted, wpc, wtask, terminated, ccall, promise,
                   cres, ncalls, mainVars, compute_mutex_, adopted, startLog>>
    /\ UNCHANGED libVars

\* Submit: cv_.notify_one();
SubmitNotify(c) ==
    /\ ~terminated
    /\ cpc[c] = "notify"
    /\ wpc' \in NotifyOne(wpc)
    /\ cpc' = [cpc EXCEPT ![c] = "get"]
    /\ UNCHANGED <<stop_, task_queue_, queue_mutex_, joinable, nstarted, wtask,
                   terminated, ccall, promise, cres, ncalls, mainVars, compute_mutex_,
                   adopted, logVars>>
    /\ UNCHANGED libVars

\* a future.get() that does not wait for the result
FutureNeverWaits(c) == TRUE

\* future.get() blocks until the shared state of the promise is ready
FutureReady(c) == promise[c] # Empty

\* Submit: return future.get(); returns the value or rethrows the exception
SubmitGet(c) ==
    /\ ~terminated
    /\ cpc[c] = "get"
    /\ FutureReady(c)
    /\ cres' = [cres EXCEPT ![c] = promise[c]]
    /\ cpc' = [cpc EXCEPT ![c] = "idle"]
    /\ UNCHANGED <<execVars, queue_mutex_, ccall, promise, ncalls, mainVars,
                   compute_mutex_, adopted, logVars>>
    /\ UNCHANGED libVars

(* ---------------------------- JuliaExecutor::ExecutorLoop ------------- *)
\* ExecutorLoop: jl_adopt_thread();
WorkerAdopt(w) ==
    /\ ~terminated
    /\ wpc[w] = "adopt"
    /\ adopted' = adopted \cup {WorkerThread(w)}
    /\ wpc' = [wpc EXCEPT ![w] = "lock"]
    /\ UNCHANGED <<stop_, task_queue_, queue_mutex_, joinable, nstarted, wtask,
                   terminated, clientVars, mainVars, compute_mutex_, logVars>>
    /\ UNCHANGED libVars

\* ExecutorLoop: std::unique_lock<std::mutex> lock(queue_mutex_); also the
\* re-acquisition of the mutex by a thread woken inside cv_.wait
WorkerLock(w) ==
    /\ ~terminated
    /\ wpc[w] = "lock"
    /\ queue_mutex_ = NoThread
    /\ queue_mutex_' = WorkerThread(w)
    /\ wpc' = [wpc EXCEPT ![w] = "check"]
    /\ UNCHANGED <<stop_, task_queue_, joinable, nstarted, wtask, terminated,
                   clientVars, mainVars, compute_mutex_, adopted, logVars>>
    /\ UNCHANGED libVars

\* a loop that breaks as soon as the stop flag is set
ShouldBreakOnStop == stop_

\* ExecutorLoop: if (stop_ && task_queue_.empty()) break;
ShouldBreak == stop_ /\ task_queue_ = <<>>

\* taking the newest task instead of the oldest
PopBack(q) == [task |-> q[Len(q)], rest |-> SubSeq(q, 1, Len(q) - 1)]

\* taking the front task without removing it from the queue
PopNoRemove(q) == [task |-> Head(q), rest |-> q]

\* ExecutorLoop: task = std::move(task_queue_.front()); task_queue_.pop();
PopTask(q) == [task |-> Head(q), rest |-> Tail(q)]

\* ExecutorLoop, with the mutex held: cv_.wait(lock, pred) releases the mutex
\* and blocks while the predicate is false; otherwise the loop either breaks
\* or pops the front task, the unique_lock goes out of scope and task() is
\* called: the closure body starts to run
WorkerCheck(w) ==
    /\ ~terminated
    /\ wpc[w] = "check"
    /\ queue_mutex_ = WorkerThread(w)
    /\ queue_mutex_' = NoThread
    /\ IF ~WaitPredicate
       THEN /\ wpc' = [wpc EXCEPT ![w] = "wait"]
            /\ UNCHANGED <<task_queue_, wtask, startLog>>
       ELSE IF ShouldBreak
       THEN /\ wpc' = [wpc EXCEPT ![w] = "exited"]
            /\ UNCHANGED <<task_queue_, wtask, startLog>>
       ELSE IF task_queue_ # <<>>
       THEN /\ wtask' = [wtask EXCEPT ![w] = PopTask(task_queue_).task]
            /\ task_queue_' = PopTask(task_queue_).rest
            /\ wpc' = [wpc EXCEPT ![w] = "running"]
            /\ startLog' = Append(startLog, TaskId(PopTask(task_queue_).task))
       ELSE /\ wpc' = [wpc EXCEPT ![w] = "lock"]
            /\ UNCHANGED <<task_queue_, wtask, startLog>>
    /\ UNCHANGED <<stop_, joinable, nstarted, terminated, clientVars, mainVars,
                   compute_mutex_, adopted, pushLog>>
    /\ UNCHANGED libVars

\* a thread blocked in cv_.wait may wake up without a notification
WorkerSpuriousWake(w) ==
    /\ ~terminated
    /\ wpc[w] = "wait"
    /\ wpc' = [wpc EXCEPT ![w] = "lock"]
    /\ UNCHANGED <<stop_, task_queue_, queue_mutex_, joinable, nstarted, wtask,
                   terminated, clientVars, mainVars, compute_mutex_, adopted, logVars>>
    /\ UNCHANGED libVars

\* one result slot shared by all callers
PromiseShared(t) == 1

\* the promise the queued lambda captured by reference ([&promise, task])
PromiseOf(t) == t.owner

\* a lambda without the catch (...) block
WrapperNoCatch(f) ==
    IF f.throws THEN [result |-> Empty, escaped |-> TRUE]
    ELSE [result |-> Body(f), escaped |-> FALSE]

\* the lambda Submit pushes: try { promise.set_value(task()); }
\* catch (...) { promise.set_exception(std::current_exception()); }
\* result: what is stored in the promise; escaped: an exception leaves the lambda
Wrapper(f) == [result |-> Body(f), escaped |-> FALSE]

\* the closure body finishes; the lambda publishes the result.  An exception
\* leaving the lambda is rethrown by ExecutorLoop's catch block and leaves the
\* thread function, which calls std::terminate
WorkerEnd(w) ==
    /\ ~terminated
    /\ wpc[w] = "running"
    /\ LET out == Wrapper(wtask[w].f)
       IN  IF out.escaped
           THEN /\ terminated' = TRUE
                /\ wpc' = [wpc EXCEPT ![w] = "died"]
                /\ UNCHANGED promise
           ELSE /\ promise' = [promise EXCEPT ![PromiseOf(wtask[w])] = out.result]
                /\ wpc' = [wpc EXCEPT ![w] = "lock"]
                /\ UNCHANGED terminated
    /\ wtask' = [wtask EXCEPT ![w] = NoTask]
    /\ UNCHANGED <<stop_, task_queue_, queue_mutex_, joinable, nstarted, cpc, ccall,
                   cres, ncalls, mainVars, compute_mutex_, adopted, logVars>>
    /\ UNCHANGED libVars

(* ---------------------------- specification --------------------------- *)
MainStep == Start \/ StopLock \/ StopSet \/ StopNotify \/ StopJoin

WorkerStep(w) ==
    \/ WorkerAdopt(w) \/ WorkerLock(w) \/ WorkerCheck(w) \/ WorkerSpuriousWake(w)
    \/ WorkerEnd(w)

SubmitStep(c) == SubmitLock(c) \/ SubmitPush(c) \/ SubmitNotify(c) \/ SubmitGet(c)

Next ==
    \/ MainStep
    \/ \E w \in Workers : WorkerStep(w)
    \/ \E c \in Clients : \E f \in SubmitClosures(c, ncalls[c] + 1) : SubmitBegin(c, f)
    \/ \E c \in Clients : SubmitStep(c)

Spec == Init /\ [][Next]_vars

(* ---------------------------- discipline adapters --------------------- *)
\* a method of JuliaExplicitDiscipline: the whole body is one
\* JuliaExecutor::GetInstance().Submit([this, ...]() {...}); th says whether
\* the closure throws (the script raises, a function is missing, ...)
ExplicitCall(c, m, th) == SubmitBegin(c, Closure(m, c, ncalls[c] + 1, th))

\* a method of JuliaImplicitDiscipline begins: JuliaThreadGuard guard; the
\* three compute methods then take compute_mutex_, the others go straight on
ImplicitCall(c, m, th) ==
    /\ ~terminated
    /\ cpc[c] = "idle"
    /\ TotalCalls < MaxSubmits
    /\ ncalls' = [ncalls EXCEPT ![c] = @ + 1]
    /\ ccall' = [ccall EXCEPT ![c] = Closure(m, c, ncalls[c] + 1, th)]
    /\ cres' = [cres EXCEPT ![c] = Empty]
    /\ adopted' = adopted \cup {ClientThread(c)}
    /\ cpc' = [cpc EXCEPT ![c] = IF m \in ImplicitLocked THEN "i_lock" ELSE "i_julia"]
    /\ UNCHANGED <<execVars, queue_mutex_, promise, mainVars, compute_mutex_, logVars>>
    /\ UNCHANGED libVars

\* std::lock_guard<std::mutex> lock(compute_mutex_);
ImplicitLock(c) ==
    /\ ~terminated
    /\ cpc[c] = "i_lock"
    /\ compute_mutex_ = NoThread
    /\ compute_mutex_' = ClientThread(c)
    /\ cpc' = [cpc EXCEPT ![c] = "i_julia"]
    /\ UNCHANGED <<execVars, queue_mutex_, ccall, promise, cres, ncalls, mainVars,
                   adopted, logVars>>
    /\ UNCHANGED libVars

\* the runtime calls of the method (GetJuliaFunction, jl_call, CheckJuliaException,
\* the conversions) are made by the calling thread while it is at "i_julia";
\* the method then returns or throws and the lock_guard releases the mutex
ImplicitReturn(c) ==
    /\ ~terminated
    /\ cpc[c] = "i_julia"
    /\ cres' = [cres EXCEPT ![c] = Body(ccall[c])]
    /\ compute_mutex_' = IF compute_mutex_ = ClientThread(c) THEN NoThread
                         ELSE compute_mutex_
    /\ cpc' = [cpc EXCEPT ![c] = "idle"]
    /\ UNCHANGED <<execVars, queue_mutex_, ccall, promise, ncalls, mainVars, adopted,
                   logVars>>
    /\ UNCHANGED libVars

\* the threads that are inside a call into the Julia runtime made by an
\* adapter method
InJulia ==
    {WorkerThread(w) : w \in {v \in Workers : /\ wpc[v] = "running"
                                              /\ wtask[v].f.method \in ExplicitMethods}}
    \cup {ClientThread(c) : c \in {d \in Clients : cpc[d] = "i_julia"}}

(* ---------------------------- specifications -------------------------- *)
\* the executor right after JuliaExecutor::GetInstance().Start()
InitStarted ==
    /\ stop_ = FALSE
    /\ task_queue_ = <<>>
    /\ queue_mutex_ = NoThread
    /\ joinable = TRUE
    /\ nstarted = 1
    /\ wpc = [w \in Workers |-> IF w = 1 THEN "adopt" ELSE "none"]
    /\ wtask = [w \in Workers |-> NoTask]
    /\ cpc = [c \in Clients |-> "idle"]
    /\ ccall = [c \in Clients |-> NoClosure]
    /\ promise = [c \in Clients |-> Empty]
    /\ cres = [c \in Clients |-> Empty]
    /\ ncalls = [c \in Clients |-> 0]
    /\ mpc = "idle"
    /\ lastOp = "start"
    /\ nmain = 0
    /\ terminated = FALSE
    /\ compute_mutex_ = NoThread
    /\ adopted = {}
    /\ pushLog = <<>>
    /\ startLog = <<>>
    /\ LibInit

\* request threads calling adapter methods on a started executor
NextAdapter ==
    \/ \E w \in Workers : WorkerStep(w)
    \/ \E c \in Clients : \E m \in ExplicitMethods : \E th \in BOOLEAN :
          ExplicitCall(c, m, th)
    \/ \E c \in Clients : \E m \in ImplicitMethods : \E th \in BOOLEAN :
          ImplicitCall(c, m, th)
    \/ \E c \in Clients : SubmitStep(c)
    \/ \E c \in Clients : ImplicitLock(c) \/ ImplicitReturn(c)

SpecAdapter == InitStarted /\ [][NextAdapter]_vars

\* request threads calling Submit on a started executor that is never stopped
NextLive ==
    \/ \E w \in Workers : WorkerStep(w)
    \/ \E c \in Clients : \E f \in SubmitClosures(c, ncalls[c] + 1) : SubmitBegin(c, f)
    \/ \E c \in Clients : SubmitStep(c)

\* the worker thread created by Start() and every request thread inside
\* Submit eventually take the step they can take, a request thread waiting
\* for queue_mutex_ eventually gets it, and every closure body terminates;
\* a spurious wake-up is never guaranteed
Fairness ==
    /\ WF_vars(WorkerAdopt(1) \/ WorkerLock(1) \/ WorkerCheck(1) \/ WorkerEnd(1))
    /\ \A c \in Clients :
          /\ SF_vars(SubmitLock(c))
          /\ WF_vars(SubmitPush(c) \/ SubmitNotify(c) \/ SubmitGet(c))

SpecLive == InitStarted /\ [][NextLive]_vars /\ Fairness

(* ---------------------------- JuliaRuntime ---------------------------- *)
\* JuliaRuntime::GetInstance() is called: the thread reaches the guard of the
\* function-local static
GetInstanceCall(t) ==
    /\ ~terminated
    /\ rpc[t] = "idle"
    /\ rpc' = [rpc EXCEPT ![t] = "static"]
    /\ UNCHANGED <<instance, init_flag_, njl_init, initialized_, racq>>
    /\ UNCHANGED <<executorVars, dataVars, startupVars, threadVars>>

\* a guard that lets a thread through while another thread is still inside
\* the constructor
StaticGuardNoWait(t) ==
    /\ ~terminated
    /\ rpc[t] = "static"
    /\ IF instance = "none"
       THEN /\ instance' = "constructing"
            /\ rpc' = [rpc EXCEPT ![t] = "call_once"]
            /\ UNCHANGED racq
       ELSE /\ rpc' = [rpc EXCEPT ![t] = "idle"]
            /\ racq' = racq \cup {t}
            /\ UNCHANGED instance
    /\ UNCHANGED <<init_flag_, njl_init, initialized_>>
    /\ UNCHANGED <<executorVars, dataVars, startupVars, threadVars>>

\* static JuliaRuntime instance; -- the first thread to arrive runs the
\* constructor, a thread that arrives meanwhile blocks until the constructor
\* has returned, and a thread that finds the instance constructed returns it
StaticGuard(t) ==
    /\ ~terminated
    /\ rpc[t] = "static"
    /\ instance # "constructing"
    /\ IF instance = "none"
       THEN /\ instance' = "constructing"
            /\ rpc' = [rpc EXCEPT ![t] = "call_once"]
            /\ UNCHANGED racq
       ELSE /\ rpc' = [rpc EXCEPT ![t] = "idle"]
            /\ racq' = racq \cup {t}
            /\ UNCHANGED instance
    /\ UNCHANGED <<init_flag_, njl_init, initialized_>>
    /\ UNCHANGED <<executorVars, dataVars, startupVars, threadVars>>

\* JuliaRuntime::JuliaRuntime(): std::call_once(init_flag_, [] { jl_init();
\* jl_eval_string("using LinearAlgebra; BLAS.set_num_threads(1)"); })
CallOnce(t) ==
    /\ ~terminated
    /\ rpc[t] = "call_once"
    /\ IF init_flag_
       THEN UNCHANGED <<init_flag_, njl_init>>
       ELSE /\ init_flag_' = TRUE
            /\ njl_init' = njl_init + 1
    /\ rpc' = [rpc EXCEPT ![t] = "store"]
    /\ UNCHANGED <<instance, initialized_, racq>>
    /\ UNCHANGED <<executorVars, dataVars, startupVars, threadVars>>

\* JuliaRuntime::JuliaRuntime(): initialized_.store(true)
StoreInitialized(t) ==
    /\ ~terminated
    /\ rpc[t] = "store"
    /\ initialized_' = TRUE
    /\ rpc' = [rpc EXCEPT ![t] = "ctor_end"]
    /\ UNCHANGED <<instance, init_flag_, njl_init, racq>>
    /\ UNCHANGED <<executorVars, dataVars, startupVars, threadVars>>

\* the constructor returns: the static is constructed and GetInstance()
\* returns the instance to the thread that constructed it
ConstructorReturn(t) ==
    /\ ~terminated
    /\ rpc[t] = "ctor_end"
    /\ instance' = "constructed"
    /\ racq' = racq \cup {t}
    /\ rpc' = [rpc EXCEPT ![t] = "idle"]
    /\ UNCHANGED <<init_flag_, njl_init, initialized_>>
    /\ UNCHANGED <<executorVars, dataVars, startupVars, threadVars>>

GetInstanceStep(t) ==
    \/ StaticGuard(t) \/ CallOnce(t) \/ StoreInitialized(t) \/ ConstructorReturn(t)

\* JuliaRuntime::IsInitialized(), asked by a thread that holds the instance
IsInitialized == initialized_

\* JuliaRuntime::LoadJuliaFile / EvalString, called on the instance that
\* GetInstance() returned: if (!initialized_.load()) throw
\* std::runtime_error("Julia runtime not initialized"); otherwise the method
\* goes on to jl_eval_string
RuntimeMethod(t) ==
    /\ ~terminated
    /\ rpc[t] = "idle"
    /\ t \in racq
    /\ rpc' = [rpc EXCEPT ![t] = IF initialized_ THEN "jl_eval_string"
                                 ELSE "not_initialized"]
    /\ UNCHANGED <<instance, init_flag_, njl_init, initialized_, racq>>
    /\ UNCHANGED <<executorVars, dataVars, startupVars, threadVars>>

\* a converter function (VariablesToJuliaDict, JuliaDictToVariables, ...), a
\* free function any thread can call: its first statement is a call into the
\* runtime (jl_get_global / jl_get_function), with no test of the runtime
ConverterCall(t) ==
    /\ ~terminated
    /\ rpc[t] = "idle"
    /\ rpc' = [rpc EXCEPT ![t] = "jl_get_global"]
    /\ UNCHANGED <<instance, init_flag_, njl_init, initialized_, racq>>
    /\ UNCHANGED <<executorVars, dataVars, startupVars, threadVars>>

\* the method or converter returns or throws
RuntimeReturn(t) ==
    /\ ~terminated
    /\ rpc[t] \in {"jl_eval_string", "not_initialized", "jl_get_global"}
    /\ rpc' = [rpc EXCEPT ![t] = "idle"]
    /\ UNCHANGED <<instance, init_flag_, njl_init, initialized_, racq>>
    /\ UNCHANGED <<executorVars, dataVars, startupVars, threadVars>>

\* the threads that are inside a call into the runtime: a JuliaRuntime
\* method, a converter, or a worker thread that has called jl_adopt_thread
InRuntimeCall ==
    {ClientThread(t) : t \in {u \in Clients : rpc[u] \in {"jl_eval_string", "jl_get_global"}}}
    \cup {th \in adopted : th.k = "worker"}

\* any thread calls GetInstance(), the JuliaRuntime methods and the
\* converters, and the main thread starts the executor, in any order
NextRuntime ==
    \/ \E t \in Clients : GetInstanceCall(t) \/ GetInstanceStep(t)
    \/ \E t \in Clients : RuntimeMethod(t) \/ ConverterCall(t) \/ RuntimeReturn(t)
    \/ Start
    \/ \E w \in Workers : WorkerAdopt(w)

SpecRuntime == Init /\ [][NextRuntime]_vars

(* ---------------------------- startup --------------------------------- *)
\* the initial thread of the process: the one that runs main, or the test
InitialThread == 1

\* the process starts: main (philote-julia-serve) or a test with
\* JuliaTestFixture, with a configuration of either kind
InitStartup ==
    /\ ExecutorInit
    /\ RuntimeInit
    /\ ThreadInit
    /\ DataInit
    /\ entry \in {"main", "fixture"}
    /\ kind \in {"explicit", "implicit"}

\* main, step 2: JuliaRuntime::GetInstance(); JuliaTestFixture::SetUp:
\* runtime_ = &JuliaRuntime::GetInstance();
StartupGetInstance ==
    /\ InitialThread \notin racq
    /\ GetInstanceCall(InitialThread) \/ GetInstanceStep(InitialThread)

\* JuliaTestFixture::SetUp: JuliaExecutor::GetInstance().Start(); main has no
\* such statement
StartupStart ==
    /\ entry = "fixture"
    /\ InitialThread \in racq
    /\ nstarted = 0
    /\ Start

\* the statement after the runtime and (in the fixture) the executor are set
\* up has been reached
StartupDone ==
    /\ InitialThread \in racq
    /\ rpc[InitialThread] = "idle"
    /\ entry = "fixture" => nstarted > 0

\* main, step 3: std::make_unique<JuliaExplicitDiscipline>(config) or
\* std::make_unique<JuliaImplicitDiscipline>(config); the constructor calls
\* Initialize(), which calls LoadJuliaDiscipline(): a Submit in the explicit
\* adapter, direct runtime calls under a JuliaThreadGuard in the implicit one
ConstructDiscipline ==
    /\ StartupDone
    /\ ncalls[InitialThread] = 0
    /\ \E th \in BOOLEAN :
          IF kind = "explicit"
          THEN ExplicitCall(InitialThread, "LoadJuliaDiscipline", th)
          ELSE ImplicitCall(InitialThread, "LoadJuliaDiscipline", th)

\* the constructor has returned without throwing: the gRPC server is built
\* and started, or the body of the test runs
Serving ==
    /\ ncalls[InitialThread] > 0
    /\ cpc[InitialThread] = "idle"
    /\ cres[InitialThread].kind = "value"

\* a request thread calls a method of the discipline
AdapterCall(c) ==
    /\ Serving
    /\ c # InitialThread
    /\ IF kind = "explicit"
       THEN \E m \in ExplicitMethods : \E th \in BOOLEAN : ExplicitCall(c, m, th)
       ELSE \E m \in ImplicitMethods : \E th \in BOOLEAN : ImplicitCall(c, m, th)

NextStartup ==
    \/ StartupGetInstance
    \/ StartupStart
    \/ ConstructDiscipline
    \/ \E c \in Clients : AdapterCall(c)
    \/ \E w \in Workers : WorkerStep(w)
    \/ \E c \in Clients : SubmitStep(c)
    \/ \E c \in Clients : ImplicitLock(c) \/ ImplicitReturn(c)

SpecStartup == InitStartup /\ [][NextStartup]_vars

(* ---------------------------- runtime exceptions --------------------- *)
\* the executor thread is at a statement of kind op of the method it runs
AtEvent(op) ==
    /\ outcome.kind = "running"
    /\ mpos <= Len(Program(method))
    /\ Program(method)[mpos].op = op

\* the executor thread starts to run method m; v is how the runtime's error
\* formatting behaves while it runs
MethodBegin(m, v) ==
    /\ outcome.kind # "running"
    /\ nmethods < MaxMethods
    /\ method' = m
    /\ mpos' = 1
    /\ outcome' = MethodRunning
    /\ raisedIn' = {}
    /\ env' = v
    /\ nmethods' = nmethods + 1
    /\ UNCHANGED <<jl_exception, unchecked>>
    /\ UNCHANGED <<executorVars, dataVars, runtimeVars, startupVars, guardVars, gcVars>>

\* jl_call0..3 / jl_eval_string: the script runs and returns or raises
JlCallStep ==
    /\ AtEvent("jl_call")
    /\ \E raises \in BOOLEAN :
          /\ jl_exception' = JlCall(raises, ScriptError)
          /\ raisedIn' = IF raises THEN raisedIn \cup {Program(method)[mpos].name}
                         ELSE raisedIn
    /\ unchecked' = TRUE
    /\ mpos' = mpos + 1
    /\ UNCHANGED <<method, outcome, env, nmethods>>
    /\ UNCHANGED <<executorVars, dataVars, runtimeVars, startupVars, guardVars, gcVars>>

\* jl_get_function, jl_get_global, jl_symbol, jl_apply_type: a call into the
\* runtime that neither sets nor clears the exception state
ApiStep ==
    /\ AtEvent("api")
    /\ mpos' = mpos + 1
    /\ UNCHANGED <<jl_exception, method, outcome, unchecked, raisedIn, env, nmethods>>
    /\ UNCHANGED <<executorVars, dataVars, runtimeVars, startupVars, guardVars, gcVars>>

\* the exception test r ends the method with a native error, or lets it go on
AfterCheck(r) ==
    /\ jl_exception' = r.exc
    /\ unchecked' = FALSE
    /\ IF r.threw
       THEN /\ outcome' = MethodThrew(r.msg)
            /\ UNCHANGED mpos
       ELSE /\ mpos' = mpos + 1
            /\ UNCHANGED outcome
    /\ UNCHANGED <<method, raisedIn, env, nmethods>>
    /\ UNCHANGED <<executorVars, dataVars, runtimeVars, startupVars, guardVars, gcVars>>

\* CheckJuliaException();
CheckStep ==
    /\ AtEvent("check")
    /\ AfterCheck(CheckJuliaException(jl_exception, env))

\* EvalString: if (jl_exception_occurred()) { ... throw ... }
EvalCheckStep ==
    /\ AtEvent("eval_check")
    /\ AfterCheck(EvalStringCheck(jl_exception, env))

\* LoadJuliaFile: if (jl_exception_occurred()) { ... throw ... }
LoadCheckStep ==
    /\ AtEvent("load_check")
    /\ AfterCheck(LoadJuliaFileCheck(jl_exception, env))

\* the method reaches its end and returns
MethodReturn ==
    /\ outcome.kind = "running"
    /\ mpos > Len(Program(method))
    /\ outcome' = MethodReturned
    /\ UNCHANGED <<jl_exception, method, mpos, unchecked, raisedIn, env, nmethods>>
    /\ UNCHANGED <<executorVars, dataVars, runtimeVars, startupVars, guardVars, gcVars>>

\* the executor thread runs lifecycle and adapter methods one after the other
NextException ==
    \/ \E m \in Methods : \E v \in Envs : MethodBegin(m, v)
    \/ JlCallStep
    \/ ApiStep
    \/ CheckStep
    \/ EvalCheckStep
    \/ LoadCheckStep
    \/ MethodReturn

SpecException == Init /\ [][NextException]_vars

(* ---------------------------- JuliaThreadGuard ------------------------ *)
\* JuliaThreadGuard::IsAdopted() on thread t
IsAdopted(t) == adopted_[t]

\* a constructor that registers the thread every time
JuliaThreadGuardAlways(t) ==
    /\ nguards[t] < MaxGuards
    /\ nadopt' = [nadopt EXCEPT ![t] = @ + 1]
    /\ adopted_' = [adopted_ EXCEPT ![t] = TRUE]
    /\ nguards' = [nguards EXCEPT ![t] = @ + 1]
    /\ UNCHANGED <<executorVars, dataVars, runtimeVars, startupVars, exceptionVars, gcVars>>

\* JuliaThreadGuard::JuliaThreadGuard() on thread t:
\* if (!adopted_) AdoptCurrentThread();  -- jl_adopt_thread(); adopted_ = true
JuliaThreadGuard(t) ==
    /\ nguards[t] < MaxGuards
    /\ IF ~adopted_[t]
       THEN /\ nadopt' = [nadopt EXCEPT ![t] = @ + 1]
            /\ adopted_' = [adopted_ EXCEPT ![t] = TRUE]
       ELSE UNCHANGED <<nadopt, adopted_>>
    /\ nguards' = [nguards EXCEPT ![t] = @ + 1]
    /\ UNCHANGED <<executorVars, dataVars, runtimeVars, startupVars, exceptionVars, gcVars>>

\* a destructor that takes the registration back
GuardDestroyUnadopt(t) ==
    /\ nguards[t] > 0
    /\ nguards' = [nguards EXCEPT ![t] = @ - 1]
    /\ adopted_' = [adopted_ EXCEPT ![t] = FALSE]
    /\ UNCHANGED nadopt
    /\ UNCHANGED <<executorVars, dataVars, runtimeVars, startupVars, exceptionVars, gcVars>>

\* ~JuliaThreadGuard() = default
GuardDestroy(t) ==
    /\ nguards[t] > 0
    /\ nguards' = [nguards EXCEPT ![t] = @ - 1]
    /\ UNCHANGED <<nadopt, adopted_>>
    /\ UNCHANGED <<executorVars, dataVars, runtimeVars, startupVars, exceptionVars, gcVars>>

\* threads construct and destroy guards in any order
NextGuard == \E t \in Threads : JuliaThreadGuard(t) \/ GuardDestroy(t)

SpecGuard == Init /\ [][NextGuard]_vars

(* ---------------------------- GCProtect ------------------------------- *)
\* the innermost GCProtect alive
Innermost == protects[Len(protects)]

\* GCProtect::GCProtect over n objects: for n > 0, JL_GC_PUSHn declares the
\* frame {n, jl_pgcstack, &obj...} as a local array of the constructor and
\* makes jl_pgcstack point to it; a is where that array lies on the stack.
\* frame and prev record what this construction pushed
GCProtectConstruct(n) ==
    /\ Len(protects) < MaxProtects
    /\ IF n = 0
       THEN /\ protects' = Append(protects, [count_ |-> 0, frame |-> jl_pgcstack,
                                             prev |-> jl_pgcstack])
            /\ UNCHANGED <<jl_pgcstack, gcframes>>
       ELSE \E a \in FrameAddrs :
               /\ gcframes' = [gcframes EXCEPT ![a] = jl_pgcstack]
               /\ jl_pgcstack' = a
               /\ protects' = Append(protects, [count_ |-> n, frame |-> a,
                                                prev |-> jl_pgcstack])
    /\ UNCHANGED <<executorVars, dataVars, runtimeVars, startupVars, exceptionVars, guardVars>>

\* the stack addresses that hold the frame of a GCProtect that is alive
LiveFrames ==
    {protects[i].frame : i \in {j \in 1 .. Len(protects) : protects[j].count_ > 0}}

\* the constructor has returned, so its local array is dead: whatever the
\* thread calls next may write anything over the stack words that held it
StackReuse ==
    /\ \E a \in LiveFrames : \E v \in {GCBase} \cup FrameAddrs :
          gcframes' = [gcframes EXCEPT ![a] = v]
    /\ UNCHANGED <<protects, jl_pgcstack>>
    /\ UNCHANGED <<executorVars, dataVars, runtimeVars, startupVars, exceptionVars, guardVars>>

\* GCProtect::~GCProtect of the innermost guard, at scope exit or during
\* exception unwinding: if (count_ > 0) JL_GC_POP();  -- jl_pgcstack =
\* jl_pgcstack->prev, read through the current stack pointer
GCProtectDestroy ==
    /\ protects # <<>>
    /\ IF Innermost.count_ > 0
       THEN jl_pgcstack' = IF jl_pgcstack \in FrameAddrs THEN gcframes[jl_pgcstack]
                           ELSE GCBase - 1
       ELSE UNCHANGED jl_pgcstack
    /\ protects' = SubSeq(protects, 1, Len(protects) - 1)
    /\ UNCHANGED gcframes
    /\ UNCHANGED <<executorVars, dataVars, runtimeVars, startupVars, exceptionVars, guardVars>>

\* a thread constructs and destroys properly nested GCProtect objects
NextGC ==
    \/ \E n \in GuardCounts : GCProtectConstruct(n)
    \/ StackReuse
    \/ GCProtectDestroy

SpecGC == Init /\ [][NextGC]_vars

(* ---------------------------- discipline instance --------------------- *)
\* what the collector treats as reachable: the global of module Main that the
\* implicit adapter sets, and the objects held by a GCProtect of the method
\* that is running. A pointer kept in a C++ member is not a root
Roots == {main_global} \cup gcroots

\* the constructor of adapter a of kind k: Initialize() calls
\* LoadJuliaDiscipline(), which includes the script file (the collector may run
\* while it is evaluated), instantiates the type with jl_call0 and keeps the
\* pointer in discipline_obj_. Only JuliaImplicitDiscipline then stores the
\* object in Main._philote_discipline_obj, a name every implicit adapter shares
LoadJuliaDiscipline(a, k) ==
    /\ adapter[a] = "none"
    /\ running = 0
    /\ adapter' = [adapter EXCEPT ![a] = k]
    /\ discipline_obj_' = [discipline_obj_ EXCEPT ![a] = a]
    /\ \E collect \in BOOLEAN :
          heap' = (IF collect THEN heap \cap Roots ELSE heap) \cup {a}
    /\ main_global' = IF k = "implicit" THEN a ELSE main_global
    /\ UNCHANGED <<gcroots, running>>
    /\ UNCHANGED <<executorVars, coreVars, convVars, metaVars, callVars, processVars>>

\* a method of adapter a starts to execute script code with its instance:
\* the implicit methods open with GCProtect protect(discipline_obj_), the
\* explicit ones pass GetDisciplineObject() to jl_call with no guard
AdapterMethodBegin(a) ==
    /\ adapter[a] \in {"explicit", "implicit"}
    /\ running = 0
    /\ running' = a
    /\ gcroots' = IF adapter[a] = "implicit" THEN {discipline_obj_[a]} ELSE {}
    /\ UNCHANGED <<adapter, discipline_obj_, heap, main_global>>
    /\ UNCHANGED <<executorVars, coreVars, convVars, metaVars, callVars, processVars>>

\* an allocation made by the running script starts a collection: every
\* object that no root reaches is reclaimed
Collect ==
    /\ running # 0
    /\ heap' = heap \cap Roots
    /\ UNCHANGED <<adapter, discipline_obj_, main_global, gcroots, running>>
    /\ UNCHANGED <<executorVars, coreVars, convVars, metaVars, callVars, processVars>>

\* the method returns or throws; its GCProtect objects are destroyed
AdapterMethodEnd ==
    /\ running # 0
    /\ running' = 0
    /\ gcroots' = {}
    /\ UNCHANGED <<adapter, discipline_obj_, heap, main_global>>
    /\ UNCHANGED <<executorVars, coreVars, convVars, metaVars, callVars, processVars>>

\* ~JuliaExplicitDiscipline / ~JuliaImplicitDiscipline: empty bodies; the
\* global of module Main, if set, stays as it is
AdapterDestroy(a) ==
    /\ adapter[a] \in {"explicit", "implicit"}
    /\ running = 0
    /\ adapter' = [adapter EXCEPT ![a] = "destroyed"]
    /\ UNCHANGED <<discipline_obj_, heap, main_global, gcroots, running>>
    /\ UNCHANGED <<executorVars, coreVars, convVars, metaVars, callVars, processVars>>

NextRoots ==
    \/ \E a \in Adapters : \E k \in {"explicit", "implicit"} : LoadJuliaDiscipline(a, k)
    \/ \E a \in Adapters : AdapterMethodBegin(a)
    \/ Collect
    \/ AdapterMethodEnd
    \/ \E a \in Adapters : AdapterDestroy(a)

SpecRoots == Init /\ [][NextRoots]_vars

(* ---------------------------- data converters ------------------------- *)
\* m[k] = v on a std::map (or setindex! on a Dict)
Put(m, k, v) == [x \in DOMAIN m \cup {k} |-> IF x = k THEN v ELSE m[x]]

\* VariablesToJuliaDict, the copy loop that leaves the last element unwritten
CopyToJuliaShort(shape, var) ==
    [k \in 1 .. SizeOf(shape) |-> IF k < SizeOf(shape) THEN var[k] ELSE 0]

\* VariablesToJuliaDict, "Copy data (C++ row-major to Julia column-major)":
\* 2-D: jl_data[j * rows + i] = var(i * cols + j); otherwise jl_data[i] = var(i)
CopyToJulia(shape, var) ==
    IF Len(shape) = 2
    THEN LET rows == shape[1]
             cols == shape[2]
         IN  [k \in 1 .. rows * cols |->
                 var[((k - 1) % rows) * cols + ((k - 1) \div rows) + 1]]
    ELSE [k \in 1 .. SizeOf(shape) |-> var[k]]

\* the copy back that takes every array index for index
CopyFromJuliaDirect(shape, jl_data) == [k \in 1 .. Len(jl_data) |-> jl_data[k]]

\* JuliaDictToVariables / JuliaDictToPartials, "Copy data (Julia column-major
\* to C++ row-major)": 2-D: var(i * cols + j) = jl_data[j * rows + i];
\* otherwise var(i) = jl_data[i]
CopyFromJulia(shape, jl_data) ==
    IF Len(shape) = 2
    THEN LET rows == shape[1]
             cols == shape[2]
         IN  [k \in 1 .. rows * cols |->
                 jl_data[((k - 1) % cols) * rows + ((k - 1) \div cols) + 1]]
    ELSE [k \in 1 .. Len(jl_data) |-> jl_data[k]]

\* philote::Variable var(philote::kOutput, shape) filled from a Julia array
ArrayToVariable(jl_array) ==
    [type |-> "kOutput", shape |-> jl_array.dims,
     data |-> CopyFromJulia(jl_array.dims, jl_array.data)]

\* VariablesToJuliaDict(variables): the dictionary is a Dict{String,
\* Vector{Float64}}; each variable becomes a 1-D array, reshaped to its shape
\* when that has more than one dimension, and setindex! stores it. setindex!
\* converts the value to Vector{Float64}: for a reshaped array that raises a
\* MethodError and CheckJuliaException throws. order is the order in which the
\* dictionary will enumerate its keys
VariablesToJuliaDict(variables, order) ==
    IF \E name \in DOMAIN variables : Len(variables[name].shape) # 1
    THEN ConvThrew
    ELSE JlDict([i \in 1 .. Len(order) |->
                   [key |-> StringKey(order[i]),
                    value |-> JlArray(variables[order[i]].shape,
                                      CopyToJulia(variables[order[i]].shape,
                                                  variables[order[i]].data))]])

\* the loop of JuliaDictToVariables over keys_array, from index i on
RECURSIVE VariablesLoop(_, _, _)
VariablesLoop(keys_array, i, variables) ==
    IF i > Len(keys_array) THEN ConvReturned(variables)
    ELSE IF ~keys_array[i].key.isString THEN ConvThrew
    ELSE IF ~keys_array[i].value.isArray THEN ConvThrew
    ELSE VariablesLoop(keys_array, i + 1,
                       Put(variables, keys_array[i].key.chars,
                           ArrayToVariable(keys_array[i].value)))

\* JuliaDictToVariables(dict): the ways the call can end. nullptr throws; a
\* value without a keys method raises and CheckJuliaException throws; "We'll
\* trust that it's a dict-like object": when collect(keys(dict)) holds unboxed
\* elements, jl_array_ptr_ref reads them as pointers (undefined behaviour)
JuliaDictToVariables(dict) ==
    CASE dict.kind = "null" -> {ConvThrew}
      [] dict.kind = "nokeys" -> {ConvThrew}
      [] dict.kind = "bits" -> {ConvAborted, ConvThrew, ConvReturned(<<>>)}
      [] OTHER -> {VariablesLoop(dict.entries, 1, <<>>)}

\* encoded_key.find('~'): the first position of the delimiter (0: npos)
Find(encoded_key) ==
    IF \E i \in 1 .. Len(encoded_key) : encoded_key[i] = "~"
    THEN CHOOSE i \in 1 .. Len(encoded_key) :
            /\ encoded_key[i] = "~"
            /\ \A j \in 1 .. i - 1 : encoded_key[j] # "~"
    ELSE 0

\* the split that keeps the delimiter in the input name
SplitKeyKeepDelimiter(encoded_key, tilde_pos) ==
    <<SubSeq(encoded_key, 1, tilde_pos - 1),
      SubSeq(encoded_key, tilde_pos, Len(encoded_key))>>

\* output_name = encoded_key.substr(0, tilde_pos);
\* input_name = encoded_key.substr(tilde_pos + 1)
SplitKey(encoded_key, tilde_pos) ==
    <<SubSeq(encoded_key, 1, tilde_pos - 1),
      SubSeq(encoded_key, tilde_pos + 1, Len(encoded_key))>>

\* the loop that passes over a key without delimiter
RECURSIVE PartialsLoopSkip(_, _, _)
PartialsLoopSkip(keys_array, i, partials) ==
    IF i > Len(keys_array) THEN ConvReturned(partials)
    ELSE IF ~keys_array[i].key.isString THEN ConvThrew
    ELSE IF Find(keys_array[i].key.chars) = 0
         THEN PartialsLoopSkip(keys_array, i + 1, partials)
    ELSE IF ~keys_array[i].value.isArray THEN ConvThrew
    ELSE PartialsLoopSkip(keys_array, i + 1,
                          Put(partials,
                              SplitKey(keys_array[i].key.chars,
                                       Find(keys_array[i].key.chars)),
                              ArrayToVariable(keys_array[i].value)))

\* the loop of JuliaDictToPartials over keys_array, from index i on; partials
\* is the local map, lost when the function throws
RECURSIVE PartialsLoop(_, _, _)
PartialsLoop(keys_array, i, partials) ==
    IF i > Len(keys_array) THEN ConvReturned(partials)
    ELSE IF ~keys_array[i].key.isString THEN ConvThrew
    ELSE IF Find(keys_array[i].key.chars) = 0 THEN ConvThrew
    ELSE IF ~keys_array[i].value.isArray THEN ConvThrew
    ELSE PartialsLoop(keys_array, i + 1,
                      Put(partials,
                          SplitKey(keys_array[i].key.chars,
                                   Find(keys_array[i].key.chars)),
                          ArrayToVariable(keys_array[i].value)))

\* JuliaDictToPartials(dict)
JuliaDictToPartials(dict) ==
    IF dict.kind = "null" THEN ConvThrew
    ELSE PartialsLoop(dict.entries, 1, <<>>)

\* the switch that has no case for kBoolValue
BoxValueNoBool(value) ==
    CASE value.kind = "number" -> [type |-> "Float64", number |-> value.number_value,
                                   bool |-> FALSE, string |-> <<>>]
      [] value.kind = "string" -> [type |-> "String", number |-> 0, bool |-> FALSE,
                                   string |-> value.string_value]
      [] OTHER -> [type |-> "nullptr", number |-> 0, bool |-> FALSE, string |-> <<>>]

\* ProtobufStructToJuliaDict, switch (value.kind_case()): jl_box_float64,
\* jl_box_bool, jl_cstr_to_string; default: jl_value stays nullptr
BoxValue(value) ==
    CASE value.kind = "number" -> [type |-> "Float64", number |-> value.number_value,
                                   bool |-> FALSE, string |-> <<>>]
      [] value.kind = "bool" -> [type |-> "Bool", number |-> 0,
                                 bool |-> value.bool_value, string |-> <<>>]
      [] value.kind = "string" -> [type |-> "String", number |-> 0, bool |-> FALSE,
                                   string |-> value.string_value]
      [] OTHER -> [type |-> "nullptr", number |-> 0, bool |-> FALSE, string |-> <<>>]

\* ProtobufStructToJuliaDict(s): Dict() filled with the boxed fields; a field
\* whose kind has no case is passed over
ProtobufStructToJuliaDict(s) ==
    [kind |-> "options",
     fields |-> [key \in {k \in DOMAIN s : BoxValue(s[k]).type # "nullptr"} |->
                    BoxValue(s[key])]]

\* the calls made to the converters: a round trip of a Variables map, or one
\* converter on its own
ConverterCalls ==
    {[fn |-> "VariablesToJuliaDict", arg |-> v, jl |-> JlNone] : v \in VariableMaps}
        \cup {[fn |-> "JuliaDictToVariables", arg |-> <<>>, jl |-> d] : d \in JlArguments}
        \cup {[fn |-> "JuliaDictToPartials", arg |-> <<>>, jl |-> d] : d \in PartialsDicts}
        \cup {[fn |-> "JuliaDictToVariables", arg |-> <<>>, jl |-> d] :
                 d \in ArrayDicts(<<"x">>)}
        \cup {[fn |-> "JuliaDictToPartials", arg |-> <<>>, jl |-> d] :
                 d \in ArrayDicts(<<"x", "~", "x">>)}
        \cup {[fn |-> "ProtobufStructToJuliaDict", arg |-> st, jl |-> JlNone] :
                 st \in PbStructs}

InitConvert ==
    /\ ExecutorInit
    /\ RuntimeInit
    /\ StartupNone
    /\ ThreadInit
    /\ RootInit
    /\ MetaInit
    /\ CallInit
    /\ ProcessInit
    /\ \E c \in ConverterCalls :
          /\ convCall = [fn |-> c.fn, arg |-> c.arg]
          /\ convJl = c.jl
    /\ convOut = ConvPending

\* the orders in which a dictionary with the keys D can enumerate them
Enumerations(D) ==
    {q \in [1 .. Cardinality(D) -> D] : \A i, j \in 1 .. Cardinality(D) : q[i] = q[j] => i = j}

\* jl_value_t* dict = VariablesToJuliaDict(vars);
CallVariablesToJuliaDict ==
    /\ convCall.fn = "VariablesToJuliaDict"
    /\ convJl = JlNone
    /\ convOut = ConvPending
    /\ \E order \in Enumerations(DOMAIN convCall.arg) :
          LET dict == VariablesToJuliaDict(convCall.arg, order)
          IN  IF dict = ConvThrew
              THEN convOut' = ConvThrew /\ UNCHANGED convJl
              ELSE convJl' = dict /\ UNCHANGED convOut
    /\ UNCHANGED <<convCall, executorVars, coreVars, rootVars, metaVars, callVars, processVars>>

\* Variables vars_back = JuliaDictToVariables(dict);
CallJuliaDictToVariables ==
    /\ convCall.fn \in {"VariablesToJuliaDict", "JuliaDictToVariables"}
    /\ convJl # JlNone
    /\ convOut = ConvPending
    /\ convOut' \in JuliaDictToVariables(convJl)
    /\ UNCHANGED <<convCall, convJl, executorVars, coreVars, rootVars, metaVars, callVars, processVars>>

\* Partials partials = JuliaDictToPartials(result);
CallJuliaDictToPartials ==
    /\ convCall.fn = "JuliaDictToPartials"
    /\ convOut = ConvPending
    /\ convOut' = JuliaDictToPartials(convJl)
    /\ UNCHANGED <<convCall, convJl, executorVars, coreVars, rootVars, metaVars, callVars, processVars>>

\* jl_value_t* options_dict = ProtobufStructToJuliaDict(options);
CallProtobufStructToJuliaDict ==
    /\ convCall.fn = "ProtobufStructToJuliaDict"
    /\ convOut = ConvPending
    /\ convJl' = ProtobufStructToJuliaDict(convCall.arg)
    /\ convOut' = ConvReturned(<<>>)
    /\ UNCHANGED <<convCall, executorVars, coreVars, rootVars, metaVars, callVars, processVars>>

NextConvert ==
    \/ CallVariablesToJuliaDict
    \/ CallJuliaDictToVariables
    \/ CallJuliaDictToPartials
    \/ CallProtobufStructToJuliaDict

SpecConvert == InitConvert /\ [][NextConvert]_vars

(* ---------------------------- explicit adapter metadata --------------- *)
\* what setup! can store under a name in inputs / outputs: a (shape, units)
\* tuple, or a value that is no 2-element tuple
Declarations ==
    {[tuple2 |-> TRUE, shape |-> <<1>>, units |-> "m"],
     [tuple2 |-> TRUE, shape |-> <<2>>, units |-> "m^2"],
     [tuple2 |-> FALSE, shape |-> <<>>, units |-> ""]}
\* the scripts: the inputs and outputs dictionaries that setup! fills
Scripts ==
    {[inputs |-> i, outputs |-> o] :
        i \in UNION {[D -> Declarations] : D \in SUBSET Names},
        o \in UNION {[D -> Declarations] : D \in SUBSET Names}}

\* a test or main constructs the adapter for some script
InitMeta ==
    /\ ExecutorInit
    /\ RuntimeInit
    /\ StartupNone
    /\ ThreadInit
    /\ RootInit
    /\ ConvInit
    /\ script \in Scripts
    /\ life = "none"
    /\ nsetup = 0
    /\ var_meta = <<>>
    /\ partials_meta = <<>>
    /\ CallInit
    /\ ProcessInit

\* JuliaExplicitDiscipline::JuliaExplicitDiscipline: Initialize(), that is
\* ExplicitDiscipline::Initialize(), JuliaRuntime::GetInstance() and
\* LoadJuliaDiscipline(). Setup() is not called
ConstructExplicit ==
    /\ life = "none"
    /\ life' = "constructed"
    /\ UNCHANGED <<script, nsetup, var_meta, partials_meta>>
    /\ UNCHANGED <<executorVars, coreVars, rootVars, convVars, callVars, processVars>>

\* the loop of ExtractIOMetadata over one dictionary, its keys enumerated in
\* the order keys_array: an entry that is no 2-element tuple is passed over,
\* the others are registered with AddInput / AddOutput
Register(dict, keys_array, type) ==
    LET wellFormed(i) == dict[keys_array[i]].tuple2
        kept == SelectSeq([i \in 1 .. Len(keys_array) |-> i], wellFormed)
    IN  [k \in 1 .. Len(kept) |->
            [name |-> keys_array[kept[k]], type |-> type,
             shape |-> dict[keys_array[kept[k]]].shape,
             units |-> dict[keys_array[kept[k]]].units]]

\* the double loop with no test of the variables' types
DeclareAllPairs(meta) ==
    [k \in 1 .. Len(meta) * Len(meta) |->
        <<meta[((k - 1) \div Len(meta)) + 1].name, meta[((k - 1) % Len(meta)) + 1].name>>]

\* Setup, "Declare all partials": for every output_var of var_meta() with
\* type kOutput, for every input_var of var_meta() with type kInput,
\* DeclarePartials(output_var.name(), input_var.name())
DeclareAll(meta) ==
    LET n == Len(meta)
        isPair(k) == /\ meta[((k - 1) \div n) + 1].type = "kOutput"
                     /\ meta[((k - 1) % n) + 1].type = "kInput"
        kept == SelectSeq([k \in 1 .. n * n |-> k], isPair)
    IN  [k \in 1 .. Len(kept) |->
            <<meta[((kept[k] - 1) \div n) + 1].name, meta[((kept[k] - 1) % n) + 1].name>>]

\* JuliaExplicitDiscipline::Setup(): setup!(discipline_obj), then
\* ExtractIOMetadata() appends the inputs and then the outputs to var_meta(),
\* then the partials are declared from the whole of var_meta()
Setup ==
    /\ life = "constructed"
    /\ nsetup < MaxSetups
    /\ \E ik \in Enumerations(DOMAIN script.inputs) :
       \E ok \in Enumerations(DOMAIN script.outputs) :
          LET registered == var_meta \o Register(script.inputs, ik, "kInput")
                                     \o Register(script.outputs, ok, "kOutput")
          IN  /\ var_meta' = registered
              /\ partials_meta' = partials_meta \o DeclareAll(registered)
    /\ nsetup' = nsetup + 1
    /\ UNCHANGED <<script, life>>
    /\ UNCHANGED <<executorVars, coreVars, rootVars, convVars, callVars, processVars>>

NextMeta ==
    \/ ConstructExplicit
    \/ Setup

SpecMeta == InitMeta /\ [][NextMeta]_vars

(* ---------------------------- explicit adapter calls ------------------ *)
\* the functions a script can define in Main for the explicit adapter
ScriptFunctions == {"compute", "compute_partials", "set_options!", "setup_partials!"}
\* the script files: one that cannot be included, one that does not define
\* config_.julia_type, and the ones that define it together with some of the
\* functions; the instance has a partials property or has none
Files ==
    {[loads |-> FALSE, type |-> FALSE, functions |-> {}, properties |-> {}],
     [loads |-> TRUE, type |-> FALSE, functions |-> {}, properties |-> {}]}
        \cup {[loads |-> TRUE, type |-> TRUE, functions |-> fs, properties |-> ps] :
                 fs \in SUBSET ScriptFunctions, ps \in SUBSET {"partials"}}

\* the inputs handed to Compute and ComputePartials
CallInputs ==
    {Put(<<>>, <<"x">>, [type |-> "kInput", shape |-> sh, data |-> [k \in 1 .. SizeOf(sh) |-> k]]) :
        sh \in {<<1>>, <<1, 1>>}}
\* what the script's compute returns
ComputeResults ==
    {JlDict(<<[key |-> StringKey(<<"x">>), value |-> v]>>) :
        v \in {JlArray(<<1>>, <<5>>), NonArray}}
\* what the script's compute_partials returns
ComputePartialsResults ==
    {JlDict(<<[key |-> StringKey(str), value |-> JlArray(<<1>>, <<5>>)]>>) :
        str \in {<<"x", "~", "x">>, <<"x">>}}
\* the maps a caller passes as outputs and as partials
CallerOutputs ==
    {<<>>, Put(<<>>, <<"x", "x">>, [type |-> "kOutput", shape |-> <<1>>, data |-> <<0>>])}
CallerPartials ==
    {<<>>, Put(<<>>, <<(<<"x", "x">>), (<<"x">>)>>,
               [type |-> "kOutput", shape |-> <<1>>, data |-> <<0>>])}

\* how a call on the adapter ended: it returned, or it threw a
\* std::runtime_error; error says which, raised whether a script function
\* raised, invoked which script functions were called, after_raise whether
\* the call before it was a Compute in which the script raised
CallEnd(fn, error, raised, invoked) ==
    [fn |-> fn, outcome |-> IF error = "none" THEN "returned" ELSE "threw",
     error |-> error, raised |-> raised, invoked |-> invoked,
     after_raise |-> (mcall.fn = "Compute" /\ mcall.raised)]

\* a test or main constructs the adapter for some script file
InitExplicit ==
    /\ ExecutorInit
    /\ RuntimeInit
    /\ StartupNone
    /\ ThreadInit
    /\ RootInit
    /\ ConvInit
    /\ MetaInit
    /\ file \in Files
    /\ obj = "none"
    /\ mcall = [fn |-> "none"]
    /\ caller_outputs \in CallerOutputs
    /\ caller_partials \in CallerPartials
    /\ nadapter = 0
    /\ ProcessInit

\* what an adapter call leaves alone besides the adapter and the exception state
ExplicitFrame ==
    /\ UNCHANGED <<method, mpos, outcome, unchecked, raisedIn, env, nmethods>>
    /\ UNCHANGED <<executorVars, startupVars, guardVars, gcVars>>
    /\ UNCHANGED <<rootVars, convVars, metaVars, processVars>>

\* JuliaExplicitDiscipline::JuliaExplicitDiscipline -> Initialize():
\* JuliaRuntime::GetInstance(), then LoadJuliaDiscipline() submits
\* LoadJuliaFile(config_.julia_file), jl_get_global(module_, julia_type),
\* jl_call0(type), CheckJuliaException(); what the closure throws leaves
\* Submit in the constructing thread, and the constructor with it
ExplicitConstructor ==
    /\ obj = "none"
    /\ instance' = "constructed"
    /\ init_flag_' = TRUE
    /\ njl_init' = IF init_flag_ THEN njl_init ELSE njl_init + 1
    /\ initialized_' = TRUE
    /\ \E v \in Envs : \E raises \in BOOLEAN :
          LET load == LoadJuliaFileCheck(JlCall(~file.loads, ScriptError), v)
              check == CheckJuliaException(JlCall(raises, ScriptError), v)
          IN  IF load.threw
              THEN /\ jl_exception' = load.exc
                   /\ obj' = "failed"
                   /\ mcall' = CallEnd("constructor", "load", FALSE, {})
              ELSE IF ~file.type
              THEN /\ jl_exception' = load.exc
                   /\ obj' = "failed"
                   /\ mcall' = CallEnd("constructor", "type not found", FALSE, {})
              ELSE IF check.threw
              THEN /\ jl_exception' = check.exc
                   /\ obj' = "failed"
                   /\ mcall' = CallEnd("constructor", "julia", TRUE, {"constructor"})
              ELSE /\ jl_exception' = check.exc
                   /\ obj' = "constructed"
                   /\ mcall' = CallEnd("constructor", "none", FALSE, {"constructor"})
    /\ UNCHANGED <<file, caller_outputs, caller_partials, nadapter>>
    /\ UNCHANGED <<rpc, racq>>
    /\ ExplicitFrame

\* the first CheckJuliaException() of VariablesToJuliaDict follows
\* jl_apply_type, which leaves the exception state alone: an exception state
\* left by an earlier call makes it throw
StaleCheck(v) == CheckJuliaException(jl_exception, v)

\* the closure of Compute / ComputePartials: VariablesToJuliaDict(inputs),
\* GetJuliaFunction(name), the missing-function throw, jl_call2,
\* CheckJuliaException(), and the conversion of the result. conv is what the
\* converter delivers for the script's result
ComputeClosure(fn, name, inputs, raises, conv, v) ==
    LET stale == StaleCheck(v)
        dict == VariablesToJuliaDict(inputs, <<(<<"x">>)>>)
        check == CheckJuliaException(JlCall(raises, ScriptError), v)
    IN  IF stale.threw
        THEN [exc |-> stale.exc, end |-> CallEnd(fn, "julia", FALSE, {}), val |-> <<>>]
        ELSE IF dict = ConvThrew
        THEN [exc |-> NoException, end |-> CallEnd(fn, "conversion", FALSE, {}), val |-> <<>>]
        ELSE IF name \notin file.functions
        THEN [exc |-> NoException, end |-> CallEnd(fn, "missing function", FALSE, {}),
              val |-> <<>>]
        ELSE IF check.threw
        THEN [exc |-> check.exc, end |-> CallEnd(fn, "julia", TRUE, {name}), val |-> <<>>]
        ELSE IF conv.kind # "value"
        THEN [exc |-> check.exc, end |-> CallEnd(fn, "conversion", FALSE, {name}),
              val |-> <<>>]
        ELSE [exc |-> check.exc, end |-> CallEnd(fn, "none", FALSE, {name}), val |-> conv.val]

\* the assignment that stores the result in the caller's map although
\* Submit threw
AssignAlways(map, r) == r.val

\* outputs = JuliaExecutor::GetInstance().Submit(...): the assignment takes
\* place when Submit returns, not when it throws
Assign(map, r) == IF r.end.outcome = "returned" THEN r.val ELSE map

\* JuliaExplicitDiscipline::Compute(inputs, outputs)
Compute ==
    /\ obj = "constructed"
    /\ nadapter < MaxCalls
    /\ \E inputs \in CallInputs : \E raises \in BOOLEAN : \E result \in ComputeResults :
       \E conv \in JuliaDictToVariables(result) : \E v \in Envs :
          LET r == ComputeClosure("Compute", "compute", inputs, raises, conv, v)
          IN  /\ jl_exception' = r.exc
              /\ mcall' = r.end
              /\ caller_outputs' = Assign(caller_outputs, r)
    /\ nadapter' = nadapter + 1
    /\ UNCHANGED <<file, obj, caller_partials>>
    /\ UNCHANGED runtimeVars
    /\ ExplicitFrame

\* JuliaExplicitDiscipline::ComputePartials(inputs, partials)
ComputePartials ==
    /\ obj = "constructed"
    /\ nadapter < MaxCalls
    /\ \E inputs \in CallInputs : \E raises \in BOOLEAN :
       \E result \in ComputePartialsResults : \E v \in Envs :
          LET r == ComputeClosure("ComputePartials", "compute_partials", inputs, raises,
                                  JuliaDictToPartials(result), v)
          IN  /\ jl_exception' = r.exc
              /\ mcall' = r.end
              /\ caller_partials' = Assign(caller_partials, r)
    /\ nadapter' = nadapter + 1
    /\ UNCHANGED <<file, obj, caller_outputs>>
    /\ UNCHANGED runtimeVars
    /\ ExplicitFrame

\* JuliaExplicitDiscipline::SetOptions(options): ProtobufStructToJuliaDict
\* (jl_call0(Dict), CheckJuliaException()), set_options! if it exists,
\* CheckJuliaException(), then ExplicitDiscipline::SetOptions
SetOptions ==
    /\ obj = "constructed"
    /\ nadapter < MaxCalls
    /\ \E raises \in BOOLEAN : \E v \in Envs :
          LET check == CheckJuliaException(JlCall(raises, ScriptError), v)
          IN  IF "set_options!" \notin file.functions
              THEN /\ jl_exception' = NoException
                   /\ mcall' = CallEnd("SetOptions", "none", FALSE, {})
              ELSE /\ jl_exception' = check.exc
                   /\ mcall' = CallEnd("SetOptions", IF check.threw THEN "julia" ELSE "none",
                                       raises, {"set_options!"})
    /\ nadapter' = nadapter + 1
    /\ UNCHANGED <<file, obj, caller_outputs, caller_partials>>
    /\ UNCHANGED runtimeVars
    /\ ExplicitFrame

\* JuliaExplicitDiscipline::SetupPartials(): setup_partials! if it exists,
\* CheckJuliaException(), then ExtractPartialsMetadata():
\* getproperty(discipline_obj, :partials), CheckJuliaException(); getproperty
\* raises when the instance has no such property. The partials property,
\* where there is one, is empty
SetupPartials ==
    /\ obj = "constructed"
    /\ nadapter < MaxCalls
    /\ \E raises \in BOOLEAN : \E v \in Envs :
          LET defined == "setup_partials!" \in file.functions
              invoked == IF defined THEN {"setup_partials!"} ELSE {}
              check == CheckJuliaException(JlCall(defined /\ raises, ScriptError), v)
              property == CheckJuliaException(
                              JlCall("partials" \notin file.properties, ScriptError), v)
          IN  IF check.threw
              THEN /\ jl_exception' = check.exc
                   /\ mcall' = CallEnd("SetupPartials", "julia", TRUE, invoked)
              ELSE /\ jl_exception' = property.exc
                   /\ mcall' = CallEnd("SetupPartials",
                                       IF property.threw THEN "julia" ELSE "none",
                                       FALSE, invoked)
    /\ nadapter' = nadapter + 1
    /\ UNCHANGED <<file, obj, caller_outputs, caller_partials>>
    /\ UNCHANGED runtimeVars
    /\ ExplicitFrame

NextExplicit ==
    \/ ExplicitConstructor
    \/ Compute
    \/ ComputePartials
    \/ SetOptions
    \/ SetupPartials

SpecExplicit == InitExplicit /\ [][NextExplicit]_vars

(* ---------------------------- properties ------------------------------ *)
InLog(log, id) == \E i \in 1 .. Len(log) : log[i] = id
IndexIn(log, id) == CHOOSE i \in 1 .. Len(log) : log[i] = id
Count(log, id) == Cardinality({i \in 1 .. Len(log) : log[i] = id})

\* the worker threads that are running a closure body
Executing == {w \in Workers : wpc[w] = "running"}
\* the last call of request thread c has returned or thrown
Returned(c) == cpc[c] = "idle" /\ ncalls[c] > 0
\* the task of the current (or last) call of request thread c
OwnTask(c) == <<c, ncalls[c]>>
\* the closure of task id has been started and has run to its end
Finished(id) == InLog(startLog, id) /\ \A w \in Workers : TaskId(wtask[w]) # id

\* C1: at any instant at most one submitted closure body is executing, so a
\* closure starts only after the closure started before it has finished
C1_MutualExclusion ==
    /\ Cardinality(Executing) <= 1
    /\ \A w \in Executing : TaskId(wtask[w]) = startLog[Len(startLog)]

\* a closure is running while another request thread's task waits in the queue
C1_Witness ==
    /\ Executing # {}
    /\ \E i \in 1 .. Len(task_queue_) :
          \A w \in Executing : task_queue_[i].owner # wtask[w].owner

\* C2: every runtime call of an adapter method, explicit or implicit, is made
\* by the executor worker thread and never by the calling request thread
C2_AllJuliaCallsOnWorker == \A t \in InJulia : t.k = "worker"

\* C3: Submit returns only after the worker has finished executing the
\* closure, and what it returns is what the closure returned in that execution
C3_SubmitReturnsResult ==
    \A c \in Clients :
        Returned(c) => /\ Finished(OwnTask(c))
                       /\ cres[c] = Body(ccall[c])

\* a Submit has returned the value of its closure
C3_Witness ==
    \E c \in Clients : /\ Returned(c)
                       /\ ccall[c].method = "task"
                       /\ cres[c] = Value(TaskExpected(c, ncalls[c]))

\* C4: an exception thrown by a closure is rethrown from Submit in the
\* submitting thread and in no other, the worker thread does not die of it,
\* and a task submitted afterwards returns its value normally
C4_ExceptionIsolation ==
    /\ \A w \in Workers : wpc[w] # "died"
    /\ \A c \in Clients :
          /\ cres[c].kind = "exception" => ccall[c].throws /\ cres[c] = Exception(ccall[c])
          /\ Returned(c) /\ ccall[c].throws => cres[c].kind = "exception"
          /\ Returned(c) /\ ~ccall[c].throws => cres[c].kind = "value"

\* a Submit has thrown, and a task started after the throwing one has
\* returned its value
C4_Witness ==
    \E a \in Clients : \E b \in Clients :
        /\ Returned(a) /\ cres[a].kind = "exception"
        /\ Returned(b) /\ cres[b].kind = "value"
        /\ IndexIn(startLog, OwnTask(a)) < IndexIn(startLog, OwnTask(b))

\* C5: closures start in the order in which their tasks were pushed, each one
\* after the one before it has finished; so the tasks one thread submits one
\* after another run in submission order
C5_FifoOrder ==
    /\ Len(startLog) <= Len(pushLog)
    /\ \A i \in 1 .. Len(startLog) : startLog[i] = pushLog[i]
    /\ \A i \in 1 .. Len(startLog) :
          i < Len(startLog) => Finished(startLog[i])

\* the task pushed first is executing while the task another request thread
\* pushed after it waits in the queue
C5_Witness ==
    /\ Len(pushLog) = 2 /\ pushLog[1][1] # pushLog[2][1]
    /\ \E w \in Executing : TaskId(wtask[w]) = pushLog[1]
    /\ Len(task_queue_) = 1 /\ TaskId(task_queue_[1]) = pushLog[2]

\* C6: every task is executed exactly once: no task is started twice, also
\* not one that threw, and when Submit returns or throws its task has been
\* executed one time
C6_ExactlyOnce ==
    /\ \A i \in 1 .. Len(pushLog) : Count(startLog, pushLog[i]) <= 1
    /\ \A i \in 1 .. Len(startLog) : Count(startLog, startLog[i]) = 1
    /\ \A c \in Clients :
          Returned(c) => Count(startLog, OwnTask(c)) = 1 /\ Finished(OwnTask(c))

\* a Submit whose closure threw has returned, and the worker has since gone
\* round its loop and started a later task
C6_Witness ==
    \E c \in Clients :
        /\ Returned(c) /\ cres[c].kind = "exception"
        /\ Len(startLog) > IndexIn(startLog, OwnTask(c))

\* C7: under concurrent submission each call receives the result of its own
\* closure, never that of another caller; a Compute call receives the
\* outputs computed from its own inputs
C7_NoCrossTalk ==
    \A c \in Clients :
        /\ promise[c] # Empty => promise[c] = Body(ccall[c])
        /\ cres[c] # Empty => cres[c] = promise[c]
        /\ cres[c].kind = "value" /\ ccall[c].method = "Compute"
              => cres[c].val = <<ParaboloidCompute(c, ncalls[c])>>
        /\ cres[c].kind = "value" /\ ccall[c].method = "task"
              => cres[c].val = <<TaskExpected(c, ncalls[c])>>

\* two request threads are inside Submit at the same time, each with its own
\* result published and different from the other's
C7_Witness ==
    \E a \in Clients : \E b \in Clients :
        /\ a # b
        /\ cpc[a] = "get" /\ cpc[b] = "get"
        /\ promise[a] # Empty /\ promise[b] # Empty
        /\ promise[a] # promise[b]

\* C8: on a started executor that is never stopped, with closures that
\* terminate and fair scheduling, every Submit call eventually returns
C8_SubmitEventuallyReturns ==
    \A c \in Clients : (cpc[c] # "idle") ~> (cpc[c] = "idle")

\* a Submit that found the worker blocked in cv_.wait has returned
C8_Witness ==
    /\ ~stop_
    /\ \E c \in Clients : Returned(c) /\ cres[c] # Empty
    /\ \E w \in Workers : wpc[w] = "wait"

\* C9: Stop() neither preempts nor cancels: setting the stop flag touches
\* neither the queue nor the task being executed, a task leaves the queue
\* only to be executed and is let go only when it has run to its end, the
\* worker exits only when the queue is empty, and Stop() returns only after
\* the worker thread has exited
C9_StopDrains ==
    [][ /\ (~stop_ /\ stop_') => UNCHANGED <<task_queue_, wpc, wtask, promise>>
        /\ \A w \in Workers :
              /\ (wpc[w] # "exited" /\ wpc'[w] = "exited")
                    => stop_ /\ task_queue_ = <<>> /\ wtask[w] = NoTask
              /\ (wtask[w] # NoTask /\ wtask'[w] # wtask[w])
                    => /\ wpc[w] = "running" /\ wpc'[w] = "lock"
                       /\ promise'[wtask[w].owner] = Body(wtask[w].f)
        /\ Len(task_queue_') < Len(task_queue_)
              => \E w \in Workers : /\ wtask[w] = NoTask
                                    /\ wtask'[w] = Head(task_queue_)
                                    /\ wpc'[w] = "running"
        /\ (mpc = "stop_join" /\ mpc' = "idle" /\ nstarted > 0)
              => wpc[nstarted] = "exited" ]_vars

\* Stop() has just set the flag while a closure is executing and another
\* task is in the queue
C9_Witness ==
    /\ mpc = "stop_notify" /\ stop_ /\ joinable
    /\ Executing # {}
    /\ task_queue_ # <<>>

\* the executor state that Stop() can touch
StopState == <<stop_, task_queue_, joinable, nstarted, wpc, wtask, terminated>>

\* C10: Stop() is idempotent: a call that follows a completed Stop() (or is
\* made when Start() was never called) does not block in join, and the call
\* that follows a completed Stop() leaves the executor state as it was
C10_StopIdempotent ==
    [][ /\ (mpc = "stop_join" /\ lastOp # "start") => ~joinable
        /\ (mpc' # mpc /\ lastOp = "stop") => /\ mpc' \in {"stop_set", "stop_notify",
                                                           "stop_join", "idle"}
                                              /\ StopState' = StopState ]_vars

\* a second Stop() has reached the join after the first one joined the
\* worker thread
C10_Witness ==
    /\ mpc = "stop_join" /\ lastOp = "stop"
    /\ nstarted = 1 /\ wpc[1] = "exited" /\ ~joinable

\* a request thread is inside JuliaExecutor::Submit
InSubmit(c) == cpc[c] \in {"lock", "push", "notify", "get"}

\* C11: at startup the runtime singleton is initialized on the initial thread
\* before the executor worker thread is started, and the executor is started
\* before the first adapter method submits a task to it
C11_StartupOrder ==
    /\ nstarted > 0 => (initialized_ /\ InitialThread \in racq)
    /\ \A c \in Clients : InSubmit(c) => nstarted > 0

\* C12: however many threads call JuliaRuntime::GetInstance() concurrently,
\* jl_init runs exactly once, there is one instance, and IsInitialized() is
\* true for every thread whose GetInstance() has returned
C12_InitOnce ==
    /\ njl_init <= 1
    /\ \A t \in racq : /\ IsInitialized
                       /\ njl_init = 1
                       /\ instance = "constructed"

\* every thread has called GetInstance() and got the instance back
C12_Witness ==
    /\ racq = Clients
    /\ njl_init = 1
    /\ \A t \in Clients : rpc[t] = "idle"

\* C13: no call into the runtime (by LoadJuliaFile, EvalString, a converter
\* or the worker's thread adoption) is made while the runtime is not
\* initialized: the method fails with an initialization error instead
C13_InitErrorBeforeAcquire == InRuntimeCall # {} => initialized_

\* C14: CheckJuliaException throws a native error if and only if the
\* exception state is set when it is called, and the exception state is clear
\* when it returns or throws
C14_CheckThrowsIffSet ==
    [][ AtEvent("check") => /\ jl_exception' = NoException
                            /\ (outcome'.kind = "threw") <=> (jl_exception # NoException)
      ]_vars

\* CheckJuliaException has thrown for an exception whose formatting functions
\* were not found, and the exception state is clear
C14_Witness ==
    /\ outcome.kind = "threw"
    /\ Program(method)[mpos].op = "check"
    /\ ~env.found
    /\ jl_exception = NoException

\* C15: after LoadJuliaFile or EvalString throws because the script raised,
\* the exception state is clear, and a method throws only if one of its own
\* calls raised
C15_NoLeftoverException ==
    /\ (method \in {"EvalString", "LoadJuliaFile"} /\ outcome.kind = "threw")
          => jl_exception = NoException
    /\ outcome.kind = "threw" => raisedIn # {}

\* C16: if sprint(showerror, ex) raises, GetJuliaExceptionString returns the
\* bare type name of the original exception and leaves the exception state
\* clear, and CheckJuliaException throws a native error with that type name
C16_FormatFailureFallsBack ==
    [][ (AtEvent("check") /\ jl_exception # NoException /\ env.found /\ env.sprintRaises)
           => /\ GetJuliaExceptionString(jl_exception, env)
                    = [msg |-> TypeName(jl_exception), exc |-> NoException]
              /\ outcome' = MethodThrew(TypeName(jl_exception))
              /\ jl_exception' = NoException
      ]_vars

\* CheckJuliaException has thrown the bare type name of a script error whose
\* formatting raised
C16_Witness ==
    /\ outcome = MethodThrew(TypeName(ScriptError))
    /\ Program(method)[mpos].op = "check"
    /\ env.found /\ env.sprintRaises
    /\ jl_exception = NoException

\* C17: no call into the runtime is made while a call that can raise is still
\* unchecked, and a Setup whose setup! raised ends with a native error
C17_CheckAfterEveryCall ==
    /\ ~(unchecked /\ (AtEvent("api") \/ AtEvent("jl_call")))
    /\ (method = "ExplicitSetup" /\ "setup!" \in raisedIn /\ outcome.kind # "running")
          => outcome.kind = "threw"

\* C18: however many JuliaThreadGuard objects a thread constructs, its guards
\* call jl_adopt_thread at most once, and IsAdopted() is true after every
\* construction
C18_AdoptOnce ==
    \A t \in Threads : /\ nadopt[t] <= 1
                       /\ nguards[t] > 0 => (IsAdopted(t) /\ nadopt[t] = 1)

\* a thread has constructed several guards and registered once
C18_Witness == \E t \in Threads : nguards[t] >= 2 /\ nadopt[t] = 1 /\ IsAdopted(t)

\* C19: IsAdopted() is true on a thread exactly if that thread has
\* constructed a guard at some time before: it is false before the first
\* guard, stays true after the guards are destroyed, and does not depend on
\* what other threads do
C19_AdoptionPermanent == \A t \in Threads : IsAdopted(t) <=> nadopt[t] > 0

\* one thread has constructed and destroyed its guard and is still adopted,
\* while another thread has never constructed one
C19_Witness ==
    \E t, u \in Threads : /\ nguards[t] = 0 /\ IsAdopted(t)
                          /\ nadopt[u] = 0 /\ ~IsAdopted(u)

\* C20: while a GCProtect over at least one object is the innermost one, the
\* frame it pushed is on top of the GC-root stack and still links to the
\* frame below it, and once every guard is destroyed the GC-root stack
\* pointer is what it was before the first guard
C20_GCStackLifo ==
    /\ protects = <<>> => jl_pgcstack = GCBase
    /\ (protects # <<>> /\ Innermost.count_ > 0)
          => /\ jl_pgcstack = Innermost.frame
             /\ gcframes[Innermost.frame] = Innermost.prev

\* C21: while an adapter is alive and a method is executing script code (the
\* collector can run), the adapter's discipline instance is reachable from
\* the collector's roots
C21_InstanceRooted ==
    \A a \in Adapters :
        (adapter[a] \in {"explicit", "implicit"} /\ running # 0)
            => discipline_obj_[a] \in Roots

\* the round trip of a Variables map has ended and delivered the same keys,
\* shapes and flat element sequences
SameVariables ==
    /\ convOut.kind = "value"
    /\ DOMAIN convOut.val = DOMAIN convCall.arg
    /\ \A name \in DOMAIN convCall.arg :
          /\ convOut.val[name].shape = convCall.arg[name].shape
          /\ convOut.val[name].data = convCall.arg[name].data

\* C22: JuliaDictToVariables(VariablesToJuliaDict(v)) has the keys of v and,
\* for each key, the same shape and the same elements in the same order,
\* whenever every variable of v is 1-D (the empty map included)
C22_RoundTrip1D ==
    (/\ convCall.fn = "VariablesToJuliaDict"
     /\ convOut.kind # "pending"
     /\ \A name \in DOMAIN convCall.arg : Len(convCall.arg[name].shape) = 1)
        => SameVariables

C22_Witness ==
    /\ convCall.fn = "VariablesToJuliaDict"
    /\ Cardinality(DOMAIN convCall.arg) = 2
    /\ \A name \in DOMAIN convCall.arg : Len(convCall.arg[name].shape) = 1
    /\ \E name \in DOMAIN convCall.arg : convCall.arg[name].shape = <<2>>
    /\ convOut.kind = "value"

\* C23: a map that holds a 2-D variable is converted to a dictionary and back
\* without error, with the same shape and the same row-major elements
C23_RoundTrip2D ==
    (/\ convCall.fn = "VariablesToJuliaDict"
     /\ convOut.kind # "pending"
     /\ \E name \in DOMAIN convCall.arg : Len(convCall.arg[name].shape) = 2)
        => SameVariables

TildeFree(str) == \A i \in 1 .. Len(str) : str[i] # "~"
TildeFreeNames == {str \in Strings(MaxKeyLen) : TildeFree(str)}
HasKey(dict, str) == \E i \in 1 .. Len(dict.entries) : dict.entries[i].key = StringKey(str)

C25_MalformedKeyThrows ==
    (/\ convCall.fn = "JuliaDictToPartials"
     /\ convOut.kind # "pending"
     /\ \E str \in TildeFreeNames : HasKey(convJl, str))
        => convOut = ConvThrew

C25_Witness ==
    /\ convCall.fn = "JuliaDictToPartials"
    /\ Len(convJl.entries) = 2
    /\ convJl.entries[1].key = StringKey(<<"x", "~", "x">>)
    /\ convJl.entries[2].key = StringKey(<<"x", "x">>)
    /\ convOut = ConvThrew

\* C26: a partials key in which a name holds "~" (the key then holds "~" more
\* than once) is rejected with an error when it is decoded
C26_TildeNameRejected ==
    (/\ convCall.fn = "JuliaDictToPartials"
     /\ convOut.kind # "pending"
     /\ \E i \in 1 .. Len(convJl.entries) :
           Cardinality({k \in 1 .. Len(convJl.entries[i].key.chars) :
                           convJl.entries[i].key.chars[k] = "~"}) > 1)
        => convOut = ConvThrew

\* C27: JuliaDictToVariables throws, and returns no map, when its argument is
\* null or no dictionary, when a key is no string or a value is no array
C27_InvalidArgumentThrows ==
    (/\ convCall.fn = "JuliaDictToVariables"
     /\ convOut.kind # "pending"
     /\ \/ convJl.kind \in {"null", "nokeys", "bits"}
        \/ /\ convJl.kind = "dict"
           /\ \E i \in 1 .. Len(convJl.entries) :
                 ~convJl.entries[i].key.isString \/ ~convJl.entries[i].value.isArray)
        => convOut = ConvThrew

RegisteredNames(type) ==
    {var_meta[i].name : i \in {j \in 1 .. Len(var_meta) : var_meta[j].type = type}}

\* a partial is declared for every pair of a registered output and a
\* registered input, for no other pair, and for no pair twice
PartialsExact ==
    /\ \A out \in RegisteredNames("kOutput") : \A inp \in RegisteredNames("kInput") :
          Cardinality({i \in 1 .. Len(partials_meta) : partials_meta[i] = <<out, inp>>}) = 1
    /\ \A i \in 1 .. Len(partials_meta) :
          /\ partials_meta[i][1] \in RegisteredNames("kOutput")
          /\ partials_meta[i][2] \in RegisteredNames("kInput")

\* C29 (as amended): after the first Setup() of an explicit adapter, a
\* partial is declared for every (output, input) pair of the registered
\* variables, for no other pair, and for each pair once
C29_PartialsAfterFirstSetup == nsetup = 1 => PartialsExact

C29_Witness ==
    /\ nsetup = 1
    /\ Cardinality(RegisteredNames("kInput")) = 2
    /\ Cardinality(RegisteredNames("kOutput")) = 1
    /\ Len(partials_meta) = 2

\* C29 (as stated): after any Setup() of an explicit adapter has completed,
\* a partial is declared for every (output, input) pair of the registered
\* variables, for no other pair, and for each pair once
C29_PartialsAfterSetup == nsetup > 0 => PartialsExact

\* C30: once the adapter is constructed, var_meta() holds every input and
\* output the script declares, with its role, shape and units, and
\* partial_meta() holds every output-input pair
C30_MetadataAfterConstruction ==
    life = "constructed" =>
        /\ \A name \in DOMAIN script.inputs : script.inputs[name].tuple2 =>
              \E i \in 1 .. Len(var_meta) :
                 var_meta[i] = [name |-> name, type |-> "kInput",
                                shape |-> script.inputs[name].shape,
                                units |-> script.inputs[name].units]
        /\ \A name \in DOMAIN script.outputs : script.outputs[name].tuple2 =>
              \E i \in 1 .. Len(var_meta) :
                 var_meta[i] = [name |-> name, type |-> "kOutput",
                                shape |-> script.outputs[name].shape,
                                units |-> script.outputs[name].units]
        /\ \A out \in DOMAIN script.outputs : \A inp \in DOMAIN script.inputs :
              (script.outputs[out].tuple2 /\ script.inputs[inp].tuple2) =>
                 \E i \in 1 .. Len(partials_meta) : partials_meta[i] = <<out, inp>>

\* the variable a converter returned for the single entry of the dictionary
Converted ==
    IF convCall.fn = "JuliaDictToVariables" THEN convOut.val[<<"x">>]
    ELSE convOut.val[<<(<<"x">>), (<<"x">>)>>]

\* C34: JuliaDictToVariables and JuliaDictToPartials place the element at
\* (row i, column j) of an r x c array, stored at flat index j*r+i, at native
\* flat index i*c+j; an array of any other dimensionality is copied index
\* for index
C34_LayoutOnReturn ==
    (/\ convCall.fn \in {"JuliaDictToVariables", "JuliaDictToPartials"}
     /\ convJl \in ArrayDicts(<<"x">>) \cup ArrayDicts(<<"x", "~", "x">>)
     /\ convOut.kind # "pending")
        => LET jl_array == convJl.entries[1].value
               r == jl_array.dims[1]
               c == jl_array.dims[2]
           IN  /\ convOut.kind = "value"
               /\ Converted.shape = jl_array.dims
               /\ Len(Converted.data) = Len(jl_array.data)
               /\ IF Len(jl_array.dims) = 2
                  THEN \A i \in 0 .. r - 1 : \A j \in 0 .. c - 1 :
                          Converted.data[i * c + j + 1] = jl_array.data[j * r + i + 1]
                  ELSE \A k \in 1 .. Len(jl_array.data) :
                          Converted.data[k] = jl_array.data[k]

C34_Witness ==
    /\ convCall.fn = "JuliaDictToPartials"
    /\ convJl \in ArrayDicts(<<"x", "~", "x">>)
    /\ convJl.entries[1].value.dims = <<2, 2>>
    /\ convOut.kind = "value"
    /\ Converted.data = <<1, 3, 2, 4>>

\* C31: Compute and ComputePartials throw the missing-function error, and
\* invoke no script function, when the script defines no compute /
\* compute_partials (and the inputs could be converted); SetOptions and
\* SetupPartials return without error when set_options! / setup_partials!
\* are not defined
C31_MissingFunctions ==
    /\ (mcall.fn = "Compute" /\ "compute" \notin file.functions)
          => (mcall.outcome = "threw" /\ mcall.invoked = {}
              /\ mcall.error \in {"missing function", "conversion"})
    /\ (mcall.fn = "ComputePartials" /\ "compute_partials" \notin file.functions)
          => (mcall.outcome = "threw" /\ mcall.invoked = {}
              /\ mcall.error \in {"missing function", "conversion"})
    /\ (mcall.fn = "SetOptions" /\ "set_options!" \notin file.functions)
          => mcall.outcome = "returned"
    /\ (mcall.fn = "SetupPartials" /\ "setup_partials!" \notin file.functions)
          => mcall.outcome = "returned"

ComputeStep == nadapter' = nadapter + 1 /\ mcall'.fn = "Compute"

\* C33: a Compute call in which the script raises throws a native error and
\* leaves no exception state; the Compute call that follows it fails with a
\* runtime exception only if the script raises again, and returns when the
\* script call and the conversions succeed
C33_RaiseFailsOnce ==
    [][ComputeStep =>
          /\ mcall'.raised => (mcall'.outcome = "threw" /\ mcall'.error = "julia"
                               /\ jl_exception' = NoException)
          /\ (mcall.fn = "Compute" /\ mcall.raised /\ ~mcall'.raised)
                => mcall'.error \in {"none", "conversion"}]_vars

C33_Witness ==
    /\ mcall.fn = "Compute"
    /\ mcall.after_raise
    /\ mcall.outcome = "returned"
    /\ DOMAIN caller_outputs = {<<"x">>}

\* C38: a Compute (ComputePartials) call that throws leaves the caller's
\* outputs (partials) map as it was; a call that returns replaces the whole
\* map by the converted result of the script
C38_MapOnFailure ==
    [][/\ ComputeStep =>
             IF mcall'.outcome = "threw" THEN caller_outputs' = caller_outputs
             ELSE caller_outputs' = Put(<<>>, <<"x">>, ArrayToVariable(JlArray(<<1>>, <<5>>)))
        /\ (nadapter' = nadapter + 1 /\ mcall'.fn = "ComputePartials") =>
             IF mcall'.outcome = "threw" THEN caller_partials' = caller_partials
             ELSE caller_partials' = Put(<<>>, <<(<<"x">>), (<<"x">>)>>,
                                         ArrayToVariable(JlArray(<<1>>, <<5>>)))]_vars

C38_Witness ==
    /\ mcall.fn = "Compute"
    /\ mcall.outcome = "threw"
    /\ mcall.error = "julia"
    /\ <<"x", "x">> \in DOMAIN caller_outputs

\* C35: no two threads are inside the runtime calls of implicit adapter
\* methods (Setup, SetupPartials, SetOptions, ComputeResiduals,
\* SolveResiduals, ComputeResidualGradients) at the same time
C35_ImplicitSerialized ==
    \A c \in Clients : \A d \in Clients :
       (/\ cpc[c] = "i_julia" /\ ccall[c].method \in ImplicitMethods
        /\ cpc[d] = "i_julia" /\ ccall[d].method \in ImplicitMethods)
          => c = d

\* the worker threads that have been created and have not ended
\* every thread that can take a step of ExecutorLoop or of Submit eventually
\* takes it, a request thread waiting for queue_mutex_ eventually gets it;
\* nothing obliges the main thread to call Start() or Stop()
SchedulerFairness ==
    /\ \A w \in Workers :
          WF_vars(WorkerAdopt(w) \/ WorkerLock(w) \/ WorkerCheck(w) \/ WorkerEnd(w))
    /\ \A c \in Clients :
          /\ SF_vars(SubmitLock(c))
          /\ WF_vars(SubmitPush(c) \/ SubmitNotify(c) \/ SubmitGet(c))

\* the executor with any number of Start() and Stop() calls, fairly scheduled
SpecFair == Init /\ [][Next]_vars /\ SchedulerFairness

LiveWorkers == {w \in Workers : wpc[w] \notin {"none", "exited", "died"}}

\* C36: at most one worker thread exists at any time, and a Start() issued
\* while a worker is running creates no second worker and does not
\* terminate the process
C36_StartWhileRunning ==
    /\ Cardinality(LiveWorkers) <= 1
    /\ ~terminated

\* request thread c is inside Submit, its promise not yet fulfilled, and no
\* worker thread is running
Stranded(c) == InSubmit(c) /\ promise[c] = Empty /\ LiveWorkers = {}

\* C39 (as amended): the stop flag, once set, stays set; with the flag set a
\* worker never waits, it takes a task if the queue holds one and exits if
\* the queue is empty; and a Submit does not return while no worker is
\* running and its promise is unfulfilled
C39_StopTerminal ==
    [][ /\ stop_ => stop_'
        /\ \A w \in Workers :
              /\ (stop_ /\ wpc'[w] = "wait") => wpc[w] = "wait"
              /\ (stop_ /\ wpc[w] = "check" /\ wpc'[w] # "check")
                    => wpc'[w] = (IF task_queue_ = <<>> THEN "exited" ELSE "running")
        /\ \A c \in Clients : Stranded(c) => cpc'[c] # "idle" ]_vars

C39_Witness ==
    /\ stop_
    /\ nstarted = 2
    /\ wpc[2] = "exited"
    /\ \E c \in Clients : Stranded(c) /\ cpc[c] = "get"

\* C39 (as stated): after Stop(), a Submit issued once no worker is running
\* never returns
C39_SubmitNeverReturns ==
    \A c \in Clients :
       []((stop_ /\ mpc = "idle" /\ cpc[c] = "lock" /\ Stranded(c)) => [](cpc[c] # "idle"))


(* ---------------------------- calls made by the explicit adapter ------ *)
\* a statement that calls fn on the calling thread
Call(fn) == [fn |-> fn, via |-> "call"]

\* JuliaExecutor::GetInstance().Submit([this, ...]() {...}): the lambda runs
\* on the executor thread while the calling thread waits in future.get()
Submitted(fn) == [fn |-> fn, via |-> "submit"]

\* the public methods of JuliaExplicitDiscipline that callers invoke
AdapterMethods ==
    {"JuliaExplicitDiscipline", "Setup", "SetupPartials", "Compute", "ComputePartials",
     "SetOptions"}

\* an ExtractIOMetadata whose body is submitted to the executor
ExtractIOMetadataSubmits == <<Submitted("ExtractIOMetadata.lambda")>>

\* ExtractIOMetadata(): the calls of its body, the two loops taken once
ExtractIOMetadataCalls ==
    <<Call("GetDisciplineObject"), Call("jl_get_function"), Call("jl_call2"),
      Call("CheckJuliaException"), Call("jl_call1"), Call("CheckJuliaException"),
      Call("AddInput"), Call("jl_call2"), Call("CheckJuliaException"),
      Call("jl_call1"), Call("CheckJuliaException"), Call("AddOutput")>>

\* the calls each function of the adapter makes, in the order of its body; a
\* function that is not listed (the runtime's C functions, the converters,
\* the base class) makes no call into the adapter or the executor
Callees(fn) ==
    CASE fn = "JuliaExplicitDiscipline" -> <<Call("Initialize")>>
      [] fn = "Initialize" ->
            <<Call("ExplicitDiscipline::Initialize"), Call("JuliaRuntime::GetInstance"),
              Call("LoadJuliaDiscipline")>>
      [] fn = "LoadJuliaDiscipline" ->
            <<Call("JuliaExecutor::GetInstance"), Submitted("LoadJuliaDiscipline.lambda")>>
      [] fn = "LoadJuliaDiscipline.lambda" ->
            <<Call("JuliaRuntime::GetInstance"), Call("LoadJuliaFile"),
              Call("jl_get_global"), Call("jl_call0"), Call("CheckJuliaException")>>
      [] fn = "Setup" ->
            <<Call("JuliaExecutor::GetInstance"), Submitted("Setup.lambda")>>
      [] fn = "Setup.lambda" ->
            <<Call("GetDisciplineObject"), Call("GetJuliaFunction"), Call("jl_call1"),
              Call("ExtractIOMetadata"), Call("var_meta"), Call("DeclarePartials")>>
      [] fn = "ExtractIOMetadata" -> ExtractIOMetadataCalls
      [] fn = "SetupPartials" ->
            <<Call("JuliaExecutor::GetInstance"), Submitted("SetupPartials.lambda")>>
      [] fn = "SetupPartials.lambda" ->
            <<Call("GetDisciplineObject"), Call("GetJuliaFunction"), Call("jl_call1"),
              Call("CheckJuliaException"), Call("ExtractPartialsMetadata")>>
      [] fn = "ExtractPartialsMetadata" ->
            <<Call("GetDisciplineObject"), Call("jl_get_function"), Call("jl_call2"),
              Call("CheckJuliaException"), Call("jl_call1"), Call("CheckJuliaException"),
              Call("DeclarePartials")>>
      [] fn = "Compute" ->
            <<Call("JuliaExecutor::GetInstance"), Submitted("Compute.lambda")>>
      [] fn = "Compute.lambda" ->
            <<Call("GetDisciplineObject"), Call("VariablesToJuliaDict"),
              Call("GetJuliaFunction"), Call("jl_call2"), Call("CheckJuliaException"),
              Call("JuliaDictToVariables")>>
      [] fn = "ComputePartials" ->
            <<Call("JuliaExecutor::GetInstance"), Submitted("ComputePartials.lambda")>>
      [] fn = "ComputePartials.lambda" ->
            <<Call("GetDisciplineObject"), Call("VariablesToJuliaDict"),
              Call("GetJuliaFunction"), Call("jl_call2"), Call("CheckJuliaException"),
              Call("JuliaDictToPartials")>>
      [] fn = "SetOptions" ->
            <<Call("JuliaExecutor::GetInstance"), Submitted("SetOptions.lambda"),
              Call("ExplicitDiscipline::SetOptions")>>
      [] fn = "SetOptions.lambda" ->
            <<Call("GetDisciplineObject"), Call("ProtobufStructToJuliaDict"),
              Call("GetJuliaFunction"), Call("jl_call2"), Call("CheckJuliaException")>>
      [] fn = "GetJuliaFunction" -> <<Call("jl_get_function")>>
      [] OTHER -> <<>>

\* the frames of cstack that run on the executor thread: a submitted lambda
\* and everything it calls
WorkerFrames == {i \in 1 .. Len(cstack) :
                    \E j \in 1 .. i : cstack[j].via = "submit"}

\* no call is in progress on the adapter
InitCalls ==
    /\ ExecutorInit
    /\ RuntimeInit
    /\ StartupNone
    /\ ThreadInit
    /\ DataInit

CallsFrame ==
    /\ UNCHANGED <<executorVars, coreVars, rootVars, convVars, metaVars, callVars>>
    /\ UNCHANGED <<statics, xpc, nhook>>

\* a request thread calls a public method of the adapter
EnterMethod(m) ==
    /\ cstack = <<>>
    /\ ~wblocked
    /\ cstack' = <<[fn |-> m, via |-> "call", pos |-> 1]>>
    /\ UNCHANGED wblocked
    /\ CallsFrame

\* the innermost function reaches its next call: the callee starts, on the
\* same thread or, submitted, on the executor thread; a Submit made by the
\* executor thread queues a task only that thread could run and then waits
\* for it in future.get()
CallStep ==
    /\ cstack # <<>>
    /\ ~wblocked
    /\ LET top == cstack[Len(cstack)]
       IN  /\ top.pos <= Len(Callees(top.fn))
           /\ LET callee == Callees(top.fn)[top.pos]
              IN  IF callee.via = "submit" /\ WorkerFrames # {}
                  THEN /\ wblocked' = TRUE
                       /\ UNCHANGED cstack
                  ELSE /\ cstack' = Append([cstack EXCEPT ![Len(cstack)].pos = @ + 1],
                                           [fn |-> callee.fn, via |-> callee.via,
                                            pos |-> 1])
                       /\ UNCHANGED wblocked
    /\ CallsFrame

\* the innermost function has made all its calls and returns
ReturnStep ==
    /\ cstack # <<>>
    /\ ~wblocked
    /\ cstack[Len(cstack)].pos > Len(Callees(cstack[Len(cstack)].fn))
    /\ cstack' = SubSeq(cstack, 1, Len(cstack) - 1)
    /\ UNCHANGED wblocked
    /\ CallsFrame

NextCalls ==
    \/ \E m \in AdapterMethods : EnterMethod(m)
    \/ CallStep
    \/ ReturnStep

SpecCalls == InitCalls /\ [][NextCalls]_vars

\* C40: every Submit of the explicit adapter is issued by a thread other
\* than the executor thread: no lambda is submitted from inside a submitted
\* lambda, so the executor thread never waits for a task only it could run
C40_NoNestedSubmit ==
    /\ ~wblocked
    /\ \A i \in 1 .. Len(cstack) : cstack[i].via = "submit" => (i - 1) \notin WorkerFrames

\* the executor thread is inside ExtractIOMetadata, called by the lambda of Setup
C40_Witness ==
    /\ Len(cstack) = 3
    /\ cstack[2].via = "submit"
    /\ cstack[3].fn = "ExtractIOMetadata"
    /\ cstack[3].pos > 1
    /\ ~wblocked


(* ---------------------------- process exit ---------------------------- *)
\* the statics of a sequence, as a set
StaticsOf(s) == {s[i] : i \in 1 .. Len(s)}

\* static T instance; in GetInstance(): the first call constructs the object
\* and registers its destructor to run at exit
ConstructStatic(s, name) == IF name \in StaticsOf(s) THEN s ELSE Append(s, name)

\* destruction in the order of construction
NextToDestroyOldest(s) == s[1]

\* at exit, function-local statics are destroyed in the reverse order of the
\* completion of their constructors
NextToDestroy(s) == s[Len(s)]

ExitFrame ==
    /\ UNCHANGED <<cstack, wblocked>>
    /\ UNCHANGED <<startupVars, threadVars, rootVars, convVars, metaVars, callVars>>

\* main, step 2, and JuliaTestFixture::SetUp: JuliaRuntime::GetInstance() on
\* the initial thread, before any other thread exists: the constructor runs
\* jl_init() under call_once and stores initialized_ = true
ExitGetInstance ==
    /\ xpc = "startup"
    /\ instance' = "constructed"
    /\ init_flag_' = TRUE
    /\ njl_init' = IF init_flag_ THEN njl_init ELSE njl_init + 1
    /\ initialized_' = TRUE
    /\ racq' = racq \cup {InitialThread}
    /\ statics' = ConstructStatic(statics, "JuliaRuntime")
    /\ xpc' = "runtime"
    /\ UNCHANGED <<rpc, nhook, executorVars>>
    /\ ExitFrame

\* JuliaTestFixture::SetUp: JuliaExecutor::GetInstance() of
\* JuliaExecutor::GetInstance().Start(); main, step 3 with kind "explicit":
\* the constructor calls Initialize(), which calls JuliaRuntime::GetInstance()
\* and then LoadJuliaDiscipline(), whose first statement is
\* JuliaExecutor::GetInstance().Submit(...)
ExitGetExecutor ==
    /\ xpc = "runtime"
    /\ entry = "fixture" \/ kind = "explicit"
    /\ statics' = ConstructStatic(ConstructStatic(statics, "JuliaRuntime"), "JuliaExecutor")
    /\ xpc' = IF entry = "fixture" THEN "executor" ELSE "constructing"
    /\ UNCHANGED <<nhook, runtimeVars, executorVars>>
    /\ ExitFrame

\* JuliaTestFixture::SetUp: Start() on the executor just obtained
ExitStart ==
    /\ xpc = "executor"
    /\ nstarted = 0
    /\ Start

\* main, step 3 with kind "implicit": the adapter calls the runtime on the
\* constructing thread and never touches the executor
ExitConstructImplicit ==
    /\ xpc = "runtime"
    /\ entry = "main"
    /\ kind = "implicit"
    /\ statics' = ConstructStatic(statics, "JuliaRuntime")
    /\ xpc' = "serving"
    /\ UNCHANGED <<nhook, runtimeVars, executorVars>>
    /\ ExitFrame

\* the initial thread submits: the Submit of LoadJuliaDiscipline in main, a
\* Submit of the test body under the fixture
ExitSubmit ==
    /\ \/ xpc = "constructing" /\ ncalls[InitialThread] = 0
       \/ xpc = "executor" /\ nstarted > 0
    /\ \E th \in BOOLEAN :
          ExplicitCall(InitialThread, "LoadJuliaDiscipline", th)

\* the steps of that Submit and of the executor thread
ExitRun ==
    /\ xpc \in {"constructing", "executor"}
    /\ SubmitStep(InitialThread) \/ \E w \in Workers : WorkerStep(w)

\* main returns (after g_server->Wait(), or 1 from its catch block) or the
\* tests have run: the initial thread is in no call and static destruction
\* begins
ProcessExit ==
    /\ ~terminated
    /\ \/ xpc \in {"runtime", "serving"}
       \/ xpc = "executor" /\ nstarted > 0
       \/ xpc = "constructing" /\ ncalls[InitialThread] > 0
    /\ cpc[InitialThread] = "idle"
    /\ mpc = "idle"
    /\ xpc' = "exiting"
    /\ UNCHANGED <<statics, nhook, runtimeVars, executorVars>>
    /\ ExitFrame

\* JuliaExecutor::~JuliaExecutor() { Stop(); } is the next destructor to run
DestroyExecutor ==
    /\ xpc = "exiting"
    /\ statics # <<>>
    /\ NextToDestroy(statics) = "JuliaExecutor"
    /\ xpc' = "stopping"
    /\ UNCHANGED <<statics, nhook, runtimeVars, executorVars>>
    /\ ExitFrame

\* the Stop() of the destructor, and the executor thread leaving its loop
ExitStop ==
    /\ xpc = "stopping"
    /\ \/ lastOp # "stop" /\ StopLock
       \/ StopSet \/ StopNotify \/ StopJoin
       \/ \E w \in Workers : WorkerStep(w)

\* Stop() has returned: the executor is destroyed
ExecutorDestroyed ==
    /\ ~terminated
    /\ xpc = "stopping"
    /\ lastOp = "stop"
    /\ mpc = "idle"
    /\ statics' = SelectSeq(statics, LAMBDA n : n # "JuliaExecutor")
    /\ xpc' = "exiting"
    /\ UNCHANGED <<nhook, runtimeVars, executorVars>>
    /\ ExitFrame

\* JuliaRuntime::~JuliaRuntime(): if (initialized_.load()) { jl_atexit_hook(0);
\* initialized_.store(false); }
DestroyRuntime ==
    /\ xpc = "exiting"
    /\ statics # <<>>
    /\ NextToDestroy(statics) = "JuliaRuntime"
    /\ IF initialized_
       THEN /\ nhook' = nhook + 1
            /\ initialized_' = FALSE
       ELSE UNCHANGED <<nhook, initialized_>>
    /\ instance' = "none"
    /\ statics' = SelectSeq(statics, LAMBDA n : n # "JuliaRuntime")
    /\ UNCHANGED <<xpc, init_flag_, njl_init, rpc, racq, executorVars>>
    /\ ExitFrame

NextExit ==
    \/ ExitGetInstance
    \/ ExitGetExecutor
    \/ ExitStart
    \/ ExitConstructImplicit
    \/ ExitSubmit
    \/ ExitRun
    \/ ProcessExit
    \/ DestroyExecutor
    \/ ExitStop
    \/ ExecutorDestroyed
    \/ DestroyRuntime

SpecExit == InitStartup /\ [][NextExit]_vars

\* C37: jl_atexit_hook runs at most once, and only when no executor thread
\* is alive: the executor singleton has been stopped, its thread joined and
\* the singleton destroyed before the runtime singleton is destroyed
C37_HookAfterJoin ==
    [][/\ nhook' # nhook =>
            /\ nhook = 0
            /\ nhook' = 1
            /\ LiveWorkers = {}
            /\ ~joinable
       /\ ("JuliaRuntime" \in StaticsOf(statics) /\ "JuliaRuntime" \notin StaticsOf(statics'))
             => "JuliaExecutor" \notin StaticsOf(statics)]_vars

\* the hook has run in a process that had started an executor thread
C37_Witness ==
    /\ nhook = 1
    /\ nstarted = 1
    /\ wpc[1] = "exited"
    /\ stop_
    /\ statics = <<>>

====
